---- MODULE Spec2Model ----
(***************************************************************************)
(* Model of gpt-load's model-capability registry, the admin handlers that  *)
(* drive it, the channel adapters' model discovery and the key selection   *)
(* done by the handlers.                                                   *)
(*                                                                         *)
(* The relational store is an external collaborator.  It is modelled as a  *)
(* set of committed rows; a gorm transaction is a buffer of pending writes *)
(* that becomes visible at commit or is dropped at rollback.  A statement  *)
(* inside a transaction sees the committed rows plus the transaction's own *)
(* pending writes (READ COMMITTED).                                        *)
(***************************************************************************)
EXTENDS Integers, Sequences, FiniteSets, TLC

VARIABLES
    store,      \* committed rows of table model_capabilities
    nextId,     \* next value of the table's auto-increment primary key
    now,        \* wall clock (time.Now())
    keys,       \* status of every row of table api_keys
    served,     \* number of requests accepted so far
    pc,         \* per worker (request goroutine): "idle", "tx" (inside the
                \* transaction) or "done" (about to write the response)
    tx,         \* per worker: the open transaction of FetchAndStoreModels
    last,       \* per worker: what its most recent handler call did
    call,       \* the adapter call under way: its inputs, its position and
                \* its result
    metrics     \* the Prometheus registry and the HTTP series

vars == <<store, nextId, now, keys, served, pc, tx, last, call, metrics>>

----------------------------------------------------------------------------
(* Bounds *)

MaxTime == 2        \* the clock runs 0..MaxTime
MaxList == 2        \* longest provider catalog
MaxRowId == 2       \* highest primary key handed out
MaxRequests == 3    \* requests served in one behaviour

Workers == {1, 2}

----------------------------------------------------------------------------
(* Values *)

\* An optional value (Go pointer): <<>> is nil, <<v>> is a pointer to v.
Null == <<>>
Some(v) == <<v>>

\* Strings that are searched for substrings are sequences of characters.
S_gpt4 == <<"g","p","t","-","4">>
S_gpt35 == <<"g","p","t","-","3",".","5">>
S_vision == <<"v","i","s","i","o","n">>
S_claude3 == <<"c","l","a","u","d","e","-","3">>
S_claudeSonnet == <<"c","l","a","u","d","e","-","s","o","n","n","e","t">>
S_claudeOpus == <<"c","l","a","u","d","e","-","o","p","u","s">>

\* Model ids a provider catalog may list.
Id_gpt4vision == S_gpt4 \o <<"-">> \o S_vision
Id_gpt4 == S_gpt4 \o <<"o">>
Id_vision == S_vision \o <<"-","x">>
Id_claude3 == S_claude3 \o <<"-">> \o <<"o","p","u","s">>
Id_plain == <<"m","1">>

ModelIds == {Id_gpt4vision, Id_gpt4, Id_vision, Id_claude3, Id_plain}

\* strings.Contains(s, sub)
Contains(s, sub) ==
    \E i \in 0..(Len(s) - Len(sub)) : SubSeq(s, i + 1, i + Len(sub)) = sub

\* custom_capabilities: nil, or one of two maps
NoCustom == "nil"
CustomValues == {"A"}

\* Token limits: one a provider publishes, one an operator enters.
ProviderLimit == 4
ManualLimit == 8

----------------------------------------------------------------------------
(* Groups and keys: administrative data, fixed in this model *)

GroupIds == {1, 2, 3, 4, 5}

GroupTable ==
    [g \in GroupIds |->
        CASE g = 1 -> [id |-> 1, name |-> "g1", channel_type |-> "openai",    upstreams |-> 1]
          [] g = 2 -> [id |-> 2, name |-> "g2", channel_type |-> "anthropic", upstreams |-> 1]
          [] g = 3 -> [id |-> 3, name |-> "g3", channel_type |-> "gemini",    upstreams |-> 1]
          [] g = 4 -> [id |-> 4, name |-> "g4", channel_type |-> "custom",    upstreams |-> 1]
          [] g = 5 -> [id |-> 5, name |-> "g5", channel_type |-> "openai",    upstreams |-> 0]]

\* A request may also name a group id that is not in the table.
MissingGroup == 9

KeyIds == {1, 2, 3, 4, 5, 6}

\* api_keys.group_id
KeyGroup == [k \in KeyIds |-> CASE k = 1 -> 1 [] k = 2 -> 1 [] k = 3 -> 2
                                [] k = 4 -> 3 [] k = 5 -> 4 [] k = 6 -> 5]

\* Keys whose status is changed by the key pool in this model.
RotatedKeys == {1, 2}

KeyStatusActive == "active"
KeyStatusInvalid == "invalid"

----------------------------------------------------------------------------
(* Channel adapters: model discovery *)

\* A catalog entry as a provider returns it: the id, and (for providers
\* that publish them) the three token limits.
NoLimits == <<Null, Null, Null>>
LimitChoices == {<<Some(ProviderLimit), Null, Some(ProviderLimit)>>,
                 <<Null, Some(ProviderLimit), Null>>}

\* The entries the catalog of a group's provider may list.
Entries(channel) ==
    CASE channel = "openai" -> [id : {Id_gpt4vision, Id_plain}, limits : {NoLimits}]
      [] channel = "anthropic" -> [id : {Id_claude3, Id_plain}, limits : {NoLimits}]
      [] OTHER -> [id : {Id_plain}, limits : LimitChoices \cup {NoLimits}]

\* Outcome of the HTTP call to the provider's catalog endpoint: a transport
\* error, a status other than 200, a body that is not JSON, or a catalog.
FailedResponses ==
    {[kind |-> k, data |-> <<>>] : k \in {"transport", "status", "badjson"}}

Responses(channel) ==
    FailedResponses
    \cup {[kind |-> "ok", data |-> d] :
             d \in UNION {[1..n -> Entries(channel)] : n \in 0..MaxList}}

Capability(g, id, t) ==
    [id |-> 0, group_id |-> g, model_id |-> id, model_name |-> id,
     supports_streaming |-> TRUE, supports_vision |-> FALSE,
     supports_functions |-> FALSE,
     max_tokens |-> Null, max_input_tokens |-> Null, max_output_tokens |-> Null,
     custom_capabilities |-> NoCustom,
     is_auto_fetched |-> TRUE, last_fetched_at |-> Some(t)]

OpenAICapability(g, e, t) ==
    LET isGpt == Contains(e.id, S_gpt4) \/ Contains(e.id, S_gpt35)
    IN  [Capability(g, e.id, t) EXCEPT
            !.supports_functions = isGpt,
            !.supports_vision = isGpt /\ Contains(e.id, S_vision)]

\* The inference that takes only claude-3 ids as vision models.
AnthropicCapability_Claude3Only(g, e, t) ==
    [Capability(g, e.id, t) EXCEPT !.supports_vision = Contains(e.id, S_claude3)]

AnthropicCapability(g, e, t) ==
    [Capability(g, e.id, t) EXCEPT
        !.supports_vision = Contains(e.id, S_claude3)
                            \/ Contains(e.id, S_claudeSonnet)
                            \/ Contains(e.id, S_claudeOpus)]

GeminiCapability(g, e, t) ==
    [Capability(g, e.id, t) EXCEPT
        !.max_tokens = e.limits[1],
        !.max_input_tokens = e.limits[2],
        !.max_output_tokens = e.limits[3]]

RegisteredChannels == {"openai", "anthropic", "gemini"}

\* Factory.GetChannel: "" on success, else the error
GetChannel(group) ==
    IF group.channel_type \in RegisteredChannels THEN "" ELSE "unknown_channel"

\* ChannelProxy.FetchModels: the error ("" for none), the capabilities and
\* whether a request was dispatched to the provider.
FetchModels(group, resp, t) ==
    IF group.upstreams = 0
    THEN [err |-> "no_upstream", caps |-> <<>>, sent |-> FALSE]
    ELSE IF resp.kind # "ok"
    THEN [err |-> resp.kind, caps |-> <<>>, sent |-> TRUE]
    ELSE [err |-> "",
          caps |-> [i \in 1..Len(resp.data) |->
                      CASE group.channel_type = "openai" ->
                             OpenAICapability(group.id, resp.data[i], t)
                        [] group.channel_type = "anthropic" ->
                             AnthropicCapability(group.id, resp.data[i], t)
                        [] OTHER ->
                             GeminiCapability(group.id, resp.data[i], t)],
          sent |-> TRUE]

----------------------------------------------------------------------------
(* The store *)

\* gorm's Updates(map): every key of the map is written.
ApplyUpdates(row, u) ==
    [f \in DOMAIN row |-> IF f \in DOMAIN u THEN u[f] ELSE row[f]]

\* A write of a transaction: an INSERT of a row or an UPDATE ... WHERE id = ?
ApplyWrite(st, wr) ==
    IF wr.op = "insert"
    THEN st \cup {wr.row}
    ELSE {IF r.id = wr.id THEN ApplyUpdates(r, wr.set) ELSE r : r \in st}

RECURSIVE ApplyWrites(_, _)
ApplyWrites(st, ws) ==
    IF ws = <<>> THEN st ELSE ApplyWrites(ApplyWrite(st, Head(ws)), Tail(ws))

\* What a statement of a transaction sees.
View(st, pending) == ApplyWrites(st, pending)

\* A table without the unique index.
UniqueViolation_NoIndex(st, row) == FALSE

\* The unique index on (group_id, model_id) rejects the row.
UniqueViolation(st, row) ==
    \E r \in st : r.id # row.id /\ r.group_id = row.group_id
                                /\ r.model_id = row.model_id

\* Commit: the pending writes reach the table in order; a write that
\* violates the unique index fails the transaction as a whole.
RECURSIVE CommitWrites(_, _)
CommitWrites(st, ws) ==
    IF ws = <<>> THEN [ok |-> TRUE, store |-> st]
    ELSE LET wr == Head(ws)
             st2 == ApplyWrite(st, wr)
         IN  IF \E r \in st2 : UniqueViolation(st2, r)
             THEN [ok |-> FALSE, store |-> st]
             ELSE CommitWrites(st2, Tail(ws))

\* A rollback that keeps the writes made before the failing statement, as
\* statements issued outside a transaction would.
Rollback_Partial(st, pending) == ApplyWrites(st, pending)

\* Rollback of db.Transaction: nothing of the pending writes is kept.
Rollback(st, pending) == st

\* A lookup by model id alone.
Lookup_AnyGroup(view, g, mid) ==
    LET m == {r \in view : r.model_id = mid}
    IN  {r \in m : \A q \in m : r.id <= q.id}

\* Where("group_id = ? AND model_id = ?").First(&existing): the matching row
\* with the lowest primary key, as a set of at most one row.
Lookup(view, g, mid) ==
    LET m == {r \in view : r.group_id = g /\ r.model_id = mid}
    IN  {r \in m : \A q \in m : r.id <= q.id}

\* An update map that also carries the capability's custom_capabilities.
FetchUpdates_ResetCustom(c) ==
    [model_name |-> c.model_name,
     supports_streaming |-> c.supports_streaming,
     supports_vision |-> c.supports_vision,
     supports_functions |-> c.supports_functions,
     custom_capabilities |-> c.custom_capabilities,
     is_auto_fetched |-> c.is_auto_fetched,
     last_fetched_at |-> c.last_fetched_at]

\* An update map without is_auto_fetched and last_fetched_at.
FetchUpdates_KeepOrigin(c) ==
    [model_name |-> c.model_name,
     supports_streaming |-> c.supports_streaming,
     supports_vision |-> c.supports_vision,
     supports_functions |-> c.supports_functions]

\* An update map that carries the three limits also when they are nil.
FetchUpdates_AllLimits(c) ==
    [model_name |-> c.model_name,
     supports_streaming |-> c.supports_streaming,
     supports_vision |-> c.supports_vision,
     supports_functions |-> c.supports_functions,
     max_tokens |-> c.max_tokens,
     max_input_tokens |-> c.max_input_tokens,
     max_output_tokens |-> c.max_output_tokens,
     is_auto_fetched |-> c.is_auto_fetched,
     last_fetched_at |-> c.last_fetched_at]

\* The update map FetchAndStoreModels builds for an existing row.
FetchUpdates(c) ==
    [model_name |-> c.model_name,
     supports_streaming |-> c.supports_streaming,
     supports_vision |-> c.supports_vision,
     supports_functions |-> c.supports_functions,
     is_auto_fetched |-> c.is_auto_fetched,
     last_fetched_at |-> c.last_fetched_at]
    @@ (IF c.max_tokens # Null
        THEN [max_tokens |-> Some(c.max_tokens[1])] ELSE <<>>)
    @@ (IF c.max_input_tokens # Null
        THEN [max_input_tokens |-> Some(c.max_input_tokens[1])] ELSE <<>>)
    @@ (IF c.max_output_tokens # Null
        THEN [max_output_tokens |-> Some(c.max_output_tokens[1])] ELSE <<>>)

\* An upsert that saves the whole capability over an existing row.
UpsertWrite_Save(view, c, id) ==
    LET existing == Lookup(view, c.group_id, c.model_id)
    IN  IF existing = {}
        THEN [op |-> "insert", row |-> [c EXCEPT !.id = id]]
        ELSE [op |-> "update", id |-> (CHOOSE r \in existing : TRUE).id,
              set |-> [f \in DOMAIN c \ {"id"} |-> c[f]]]

\* One iteration of the loop of FetchAndStoreModels: the write it issues.
UpsertWrite(view, c, id) ==
    LET existing == Lookup(view, c.group_id, c.model_id)
    IN  IF existing = {}
        THEN [op |-> "insert", row |-> [c EXCEPT !.id = id]]
        ELSE [op |-> "update", id |-> (CHOOSE r \in existing : TRUE).id,
              set |-> FetchUpdates(c)]

RowsOf(st, g) == {r \in st : r.group_id = g}

----------------------------------------------------------------------------
(* Key selection *)

\* A selection that leaves out the status condition.
ActiveKeys_AnyStatus(ks, g) == {k \in KeyIds : KeyGroup[k] = g}

ActiveKeys(ks, g) == {k \in KeyIds : KeyGroup[k] = g /\ ks[k] = KeyStatusActive}

\* Where("group_id = ? AND status = ?").First(&apiKey): gorm's First orders
\* by primary key.  The result is a set: empty when no row matches.
AcquireFirst(ks, g) ==
    {k \in ActiveKeys(ks, g) : \A j \in ActiveKeys(ks, g) : k <= j}

\* ... .Order("RANDOM()").First(&apiKey): any matching row.
AcquireRandom(ks, g) == ActiveKeys(ks, g)

----------------------------------------------------------------------------
(* Results of handler calls *)

NoTx == [group |-> 0, caps |-> <<>>, i |-> 0, pending |-> <<>>, pre |-> {}]

\* What a handler call did: the handler, the group it resolved (0: none),
\* the time it ran at, the error kind ("" on success) and HTTP status, the
\* key it acquired (0: none), how the decryption of its key_value went
\* ("" when not attempted), the staleness window it used, whether a
\* request went upstream and what the provider answered, how often
\* FetchAndStoreModels was invoked, and for a patch the row id it names,
\* the request body and the update map handed to the service; candidates
\* are the keys its selection query could have returned.
NoCall == [handler |-> "none", group |-> 0, at |-> 0, err |-> "", status |-> 0,
           acquired |-> 0, candidates |-> {}, decrypt |-> "", stale |-> 0, sent |-> FALSE,
           upstream |-> "", invoked |-> 0,
           target |-> 0, request |-> <<>>, updates |-> <<>>]

\* What the provider answered, as the caller of the adapter sees it.
Answer(resp) ==
    IF resp.kind = "ok" /\ Len(resp.data) = 0 THEN "empty" ELSE resp.kind

\* HTTP status of an API error of the admin handlers.
StatusOf(err) ==
    CASE err = "" -> 200
      [] err \in {"invalid_json", "bad_request"} -> 400
      [] err = "not_found" -> 404
      [] OTHER -> 500

Call(h, g, err) ==
    [NoCall EXCEPT !.handler = h, !.group = g, !.err = err,
                   !.status = StatusOf(err)]

\* A worker accepts a request.
Accept(w) ==
    /\ pc[w] = "idle"
    /\ served < MaxRequests
    /\ served' = served + 1

\* A handler is through with its work; c is what it did.
Finish(w, c) ==
    /\ pc' = [pc EXCEPT ![w] = "done"]
    /\ tx' = tx
    /\ last' = [last EXCEPT ![w] = c]

\* The response is written and the request ends.
Respond(w) ==
    /\ pc[w] = "done"
    /\ pc' = [pc EXCEPT ![w] = "idle"]
    /\ tx' = [tx EXCEPT ![w] = NoTx]
    /\ last' = [last EXCEPT ![w] = NoCall]
    /\ UNCHANGED <<store, nextId, now, keys, served, call, metrics>>

----------------------------------------------------------------------------
(* ModelService.FetchAndStoreModels *)

\* Lines 29-44: channel, provider call, emptiness check.
FetchAndStoreBegin_NoEmptyCheck(group, resp, t) ==
    LET chErr == GetChannel(group)
        f == FetchModels(group, resp, t)
    IN  IF chErr # "" THEN [err |-> chErr, caps |-> <<>>, sent |-> FALSE]
        ELSE f

FetchAndStoreBegin(group, resp, t) ==
    LET chErr == GetChannel(group)
        f == FetchModels(group, resp, t)
    IN  IF chErr # "" THEN [err |-> chErr, caps |-> <<>>, sent |-> FALSE]
        ELSE IF f.err # "" THEN f
        ELSE IF Len(f.caps) = 0
             THEN [err |-> "no_models", caps |-> <<>>, sent |-> TRUE]
        ELSE f

\* The model ids of a provider's list.
CapIds(caps) == {caps[i].model_id : i \in 1..Len(caps)}

\* The caller c (a handler's record of its call so far) invokes
\* FetchAndStoreModels: either it fails before the transaction, or the
\* transaction is opened.
FetchAndStoreModels(w, c, resp) ==
    LET b == FetchAndStoreBegin(GroupTable[c.group], resp, now)
        c2 == [c EXCEPT !.invoked = @ + 1, !.sent = b.sent, !.at = now,
                        !.upstream = IF b.sent THEN Answer(resp) ELSE ""]
    IN  IF b.err # ""
        THEN Finish(w, [c2 EXCEPT !.err = "internal", !.status = 500])
        ELSE /\ pc' = [pc EXCEPT ![w] = "tx"]
             /\ tx' = [tx EXCEPT ![w] =
                         [group |-> c.group, caps |-> b.caps, i |-> 1,
                          pending |-> <<>>, pre |-> store]]
             /\ last' = [last EXCEPT ![w] = c2]

\* One iteration of the loop inside the transaction (lines 48-94).  fail
\* says which statement the database fails, if any.
TxStep(w, fail) ==
    /\ pc[w] = "tx"
    /\ tx[w].i <= Len(tx[w].caps)
    /\ LET t == tx[w]
           wr == UpsertWrite(View(store, t.pending), t.caps[t.i], nextId)
       IN  IF fail # "none"
           THEN /\ store' = Rollback(store, t.pending)
                /\ pc' = [pc EXCEPT ![w] = "done"]
                /\ tx' = tx
                /\ last' = [last EXCEPT ![w].err = "internal", ![w].status = 500]
                /\ UNCHANGED nextId
           ELSE /\ wr.op = "insert" => nextId <= MaxRowId
                /\ nextId' = IF wr.op = "insert" THEN nextId + 1 ELSE nextId
                /\ tx' = [tx EXCEPT ![w].pending = Append(@, wr), ![w].i = @ + 1]
                /\ UNCHANGED <<store, pc, last>>
    /\ UNCHANGED <<now, keys, served, call, metrics>>

\* Row ids a transaction's pending updates address.
UpdatedIds(pending) ==
    {pending[i].id : i \in {j \in 1..Len(pending) : pending[j].op = "update"}}

\* The end of the transaction (lines 95-96): commit, or rollback when the
\* database rejects a write.
TxCommit(w) ==
    /\ pc[w] = "tx"
    /\ tx[w].i > Len(tx[w].caps)
    /\ LET t == tx[w]
           res == CommitWrites(store, t.pending)
       IN  IF res.ok
           THEN /\ store' = res.store
                /\ last' = last
           ELSE /\ store' = Rollback(store, t.pending)
                /\ last' = [last EXCEPT ![w].err = "internal", ![w].status = 500]
    /\ pc' = [pc EXCEPT ![w] = "done"]
    /\ tx' = tx
    /\ UNCHANGED <<nextId, now, keys, served, call, metrics>>

----------------------------------------------------------------------------
(* Handlers of the model endpoints *)

\* Server.FetchModels: POST /models/fetch
FetchModelsHandler(w, valid, g, resp) ==
    /\ Accept(w)
    /\ IF ~valid THEN Finish(w, Call("fetch", 0, "invalid_json"))
       ELSE IF g \notin GroupIds THEN Finish(w, Call("fetch", 0, "not_found"))
       ELSE IF AcquireFirst(keys, g) = {}
            THEN Finish(w, Call("fetch", g, "no_active_keys"))
       ELSE FetchAndStoreModels(w,
                [Call("fetch", g, "") EXCEPT
                    !.acquired = CHOOSE k \in AcquireFirst(keys, g) : TRUE,
                    !.candidates = AcquireFirst(keys, g)],
                resp)
    /\ UNCHANGED <<store, nextId, now, keys, call, metrics>>

\* The stale_hours query parameter: absent, not a number, or an integer.
QueryParams == {<<"absent">>, <<"text">>, <<"int", 0 - 1>>, <<"int", 0>>,
                <<"int", 1>>}

DefaultStaleHours == 24

\* Lines 518-525 of the handler: the staleness window in hours.
StaleDurationHours(param) ==
    IF param[1] = "int" /\ param[2] > 0 THEN param[2] ELSE DefaultStaleHours

\* The first count of RefreshStaleModels: auto-fetched rows of the group
\* never fetched or fetched before now - staleDuration.
\* A count that takes a row fetched exactly staleDuration ago as stale.
StaleCount_Inclusive(st, g, t, d) ==
    Cardinality({r \in RowsOf(st, g) :
        /\ r.is_auto_fetched
        /\ (r.last_fetched_at = Null \/ r.last_fetched_at[1] <= t - d)})

StaleCount(st, g, t, d) ==
    Cardinality({r \in RowsOf(st, g) :
        /\ r.is_auto_fetched
        /\ (r.last_fetched_at = Null \/ r.last_fetched_at[1] < t - d)})

TotalCount(st, g) == Cardinality(RowsOf(st, g))

\* ModelService.RefreshStaleModels: does it call FetchAndStoreModels?
RefreshStaleModels(st, g, t, d) ==
    IF StaleCount(st, g, t, d) > 0 THEN TRUE
    ELSE IF TotalCount(st, g) = 0 THEN TRUE
    ELSE FALSE

\* Server.RefreshModels: POST /models/group/:groupId/refresh
RefreshModelsHandler(w, valid, g, param, resp) ==
    /\ Accept(w)
    /\ IF ~valid THEN Finish(w, Call("refresh", 0, "bad_request"))
       ELSE IF g \notin GroupIds THEN Finish(w, Call("refresh", 0, "not_found"))
       ELSE IF AcquireFirst(keys, g) = {}
            THEN Finish(w, Call("refresh", g, "no_active_keys"))
       ELSE LET c == [Call("refresh", g, "") EXCEPT
                        !.acquired = CHOOSE k \in AcquireFirst(keys, g) : TRUE,
                        !.candidates = AcquireFirst(keys, g),
                        !.at = now, !.stale = StaleDurationHours(param)]
            IN  IF RefreshStaleModels(store, g, now, StaleDurationHours(param))
                THEN FetchAndStoreModels(w, c, resp)
                ELSE Finish(w, c)
    /\ UNCHANGED <<store, nextId, now, keys, call, metrics>>

\* An update request: every field is absent, JSON null, or a value.
Absent == <<"absent">>
JNull == <<"null">>
Val(v) == <<"val", v>>

IsSet(x) == x[1] = "val"

FlagInputs == {Absent, JNull, Val(TRUE), Val(FALSE)}
LimitInputs == {Absent, JNull, Val(ManualLimit)}
CustomInputs == {Absent, JNull} \cup {Val(v) : v \in CustomValues}

RequestFields == {"supports_streaming", "supports_vision", "supports_functions",
                  "max_tokens", "max_input_tokens", "max_output_tokens",
                  "custom_capabilities"}

FieldInputs ==
    [f \in RequestFields |->
        CASE f \in {"supports_streaming", "supports_vision", "supports_functions"}
               -> FlagInputs
          [] f \in {"max_tokens", "max_input_tokens", "max_output_tokens"}
               -> LimitInputs
          [] OTHER -> CustomInputs]

\* The requests that set no field, or one of the fields of F.
UpdateModelRequests(F) ==
    LET none == [f \in RequestFields |-> Absent]
    IN  {none} \cup UNION {{[none EXCEPT ![f] = x] : x \in FieldInputs[f]} : f \in F}

\* An update map with an entry for every field of the request, the zero
\* value standing for a field the request does not set.
BuildUpdates_ZeroValues(q) ==
    [f \in {"supports_streaming", "supports_vision", "supports_functions"}
        |-> IF IsSet(q[f]) THEN q[f][2] ELSE FALSE]
    @@ [f \in {"max_tokens", "max_input_tokens", "max_output_tokens"}
        |-> IF IsSet(q[f]) THEN Some(q[f][2]) ELSE Null]

\* Lines 432-453 of UpdateModel: the update map built from the request.
\* Binding leaves a nil pointer (or nil map) for an absent and for a null
\* field.
BuildUpdates(q) ==
    LET flags == {f \in {"supports_streaming", "supports_vision",
                         "supports_functions", "custom_capabilities"} : IsSet(q[f])}
        limits == {f \in {"max_tokens", "max_input_tokens",
                          "max_output_tokens"} : IsSet(q[f])}
    IN  [f \in flags |-> q[f][2]] @@ [f \in limits |-> Some(q[f][2])]

\* ModelService.UpdateModelCapability: Model(...).Where("id = ?").Updates(map).
\* The statement fails as a whole when the unique index rejects it.
UpdateModelCapability(st, id, u) ==
    LET st2 == ApplyWrite(st, [op |-> "update", id |-> id, set |-> u])
    IN  IF \E r \in st2 : UniqueViolation(st2, r)
        THEN [ok |-> FALSE, store |-> st]
        ELSE [ok |-> TRUE, store |-> st2]

RowIds == 1..MaxRowId

\* Server.UpdateModel: PUT /models/:modelId
UpdateModel(w, idValid, id, reqValid, q) ==
    /\ Accept(w)
    /\ IF ~idValid
       THEN /\ Finish(w, Call("update", 0, "bad_request"))
            /\ UNCHANGED <<store>>
       ELSE IF ~reqValid
       THEN /\ Finish(w, Call("update", 0, "invalid_json"))
            /\ UNCHANGED <<store>>
       ELSE LET res == UpdateModelCapability(store, id, BuildUpdates(q))
            IN  /\ store' = res.store
                /\ Finish(w, [Call("update", 0,
                        IF ~res.ok THEN "internal"
                        ELSE IF \E r \in res.store : r.id = id THEN ""
                        ELSE "not_found")
                      EXCEPT !.target = id, !.request = <<q>>,
                             !.updates = <<BuildUpdates(q)>>])
    /\ UNCHANGED <<nextId, now, keys, call, metrics>>

\* Update maps a direct caller of the service passes.
MakeManual == [is_auto_fetched |-> FALSE, last_fetched_at |-> Null]
ClearFetched == [last_fetched_at |-> Null]
Rename == [model_name |-> <<"x">>]
Rekey == [model_id |-> Id_plain]

NoUpdates == <<>>

ServiceUpdates == {NoUpdates, MakeManual, ClearFetched, Rename, Rekey}

\* ModelService.UpdateModelCapability called with an arbitrary map.
ServiceUpdate(w, id, u) ==
    /\ Accept(w)
    /\ LET res == UpdateModelCapability(store, id, u)
       IN  /\ store' = res.store
           /\ Finish(w, [Call("service_update", 0,
                                 IF res.ok THEN "" ELSE "internal")
                         EXCEPT !.target = id, !.updates = <<u>>])
    /\ UNCHANGED <<nextId, now, keys, call, metrics>>

\* ModelService.DeleteModel
DeleteModel(st, id) == {r \in st : r.id # id}

\* Server.DeleteModel: DELETE /models/:modelId
DeleteModelHandler(w, idValid, id) ==
    /\ Accept(w)
    /\ IF ~idValid
       THEN /\ Finish(w, Call("delete", 0, "bad_request"))
            /\ UNCHANGED <<store>>
       ELSE /\ store' = DeleteModel(store, id)
            /\ Finish(w, Call("delete", 0, ""))
    /\ UNCHANGED <<nextId, now, keys, call, metrics>>

----------------------------------------------------------------------------
(* Playground *)

GroupNames == {GroupTable[g].name : g \in GroupIds} \cup {"nope"}

\* Where("name = ?").First(&group): the group id, 0 when there is none
GroupByName(name) ==
    IF \E g \in GroupIds : GroupTable[g].name = name
    THEN CHOOSE g \in GroupIds : GroupTable[g].name = name
    ELSE 0

PlaygroundCall(g, err, status) ==
    [NoCall EXCEPT !.handler = "playground", !.group = g, !.err = err,
                   !.status = status]

\* A handler that drops the decryption error and goes on with the request.
AfterDecrypt_Ignore(c, decOK, upOK) ==
    [c EXCEPT !.decrypt = IF decOK THEN "ok" ELSE "failed", !.sent = TRUE,
              !.err = IF upOK THEN "" ELSE "upstream",
              !.status = IF upOK THEN 200 ELSE 500]

\* Lines 62-94 of PlaygroundChat: c is the call up to the key selection,
\* decOK whether the key_value decrypts, upOK whether the upstream call
\* yields content.
AfterDecrypt(c, decOK, upOK) ==
    IF ~decOK
    THEN [c EXCEPT !.decrypt = "failed", !.err = "decrypt", !.status = 500]
    ELSE [c EXCEPT !.decrypt = "ok", !.sent = TRUE,
                   !.err = IF upOK THEN "" ELSE "upstream",
                   !.status = IF upOK THEN 200 ELSE 500]

\* A handler that selects the key before it looks at the upstreams.
PlaygroundChat_KeyFirst(w, valid, name, k, decOK, upOK) ==
    /\ Accept(w)
    /\ LET g == GroupByName(name)
           q == [valid |-> valid, group_name |-> name]
       IN  IF ~valid
           THEN Finish(w, [PlaygroundCall(0, "invalid_json", 400) EXCEPT !.request = q])
           ELSE IF g = 0
           THEN Finish(w, [PlaygroundCall(0, "not_found", 404) EXCEPT !.request = q])
           ELSE IF AcquireRandom(keys, g) = {}
           THEN Finish(w, [PlaygroundCall(g, "no_active_keys", 500) EXCEPT !.request = q])
           ELSE IF GroupTable[g].upstreams = 0
           THEN Finish(w, [PlaygroundCall(g, "no_upstreams", 400) EXCEPT !.request = q])
           ELSE /\ k \in AcquireRandom(keys, g)
                /\ Finish(w, AfterDecrypt(
                      [PlaygroundCall(g, "", 0) EXCEPT
                          !.acquired = k, !.candidates = AcquireRandom(keys, g),
                          !.request = q],
                      decOK, upOK))
    /\ UNCHANGED <<store, nextId, now, keys, call, metrics>>

\* Server.PlaygroundChat: POST /playground/chat.  k is the key the random
\* selection returns; the call keeps the request it was made with.
PlaygroundChat(w, valid, name, k, decOK, upOK) ==
    /\ Accept(w)
    /\ LET g == GroupByName(name)
           q == [valid |-> valid, group_name |-> name]
       IN  IF ~valid
           THEN Finish(w, [PlaygroundCall(0, "invalid_json", 400) EXCEPT !.request = q])
           ELSE IF g = 0
           THEN Finish(w, [PlaygroundCall(0, "not_found", 404) EXCEPT !.request = q])
           ELSE IF GroupTable[g].upstreams = 0
           THEN Finish(w, [PlaygroundCall(g, "no_upstreams", 400) EXCEPT !.request = q])
           ELSE IF AcquireRandom(keys, g) = {}
           THEN Finish(w, [PlaygroundCall(g, "no_active_keys", 500) EXCEPT !.request = q])
           ELSE /\ k \in AcquireRandom(keys, g)
                /\ Finish(w, AfterDecrypt(
                      [PlaygroundCall(g, "", 0) EXCEPT
                          !.acquired = k, !.candidates = AcquireRandom(keys, g),
                          !.request = q],
                      decOK, upOK))
    /\ UNCHANGED <<store, nextId, now, keys, call, metrics>>

----------------------------------------------------------------------------
(* Key pool and clock *)

\* KeyPool.MarkInvalid
MarkInvalid(k) ==
    /\ keys[k] = KeyStatusActive
    /\ keys' = [keys EXCEPT ![k] = KeyStatusInvalid]
    /\ UNCHANGED <<store, nextId, now, served, pc, tx, last, call, metrics>>

\* KeyPool.MarkActive
MarkActive(k) ==
    /\ keys[k] = KeyStatusInvalid
    /\ keys' = [keys EXCEPT ![k] = KeyStatusActive]
    /\ UNCHANGED <<store, nextId, now, served, pc, tx, last, call, metrics>>

\* An hour passes between two requests.
Tick ==
    /\ \A w \in Workers : pc[w] = "idle"
    /\ now < MaxTime
    /\ now' = now + 1
    /\ UNCHANGED <<store, nextId, keys, served, pc, tx, last, call, metrics>>

----------------------------------------------------------------------------
(* Specifications *)

\* The ten collectors of package prometheus.
Collectors ==
    {"http_requests_total", "http_request_duration_seconds",
     "http_request_size_bytes", "http_response_size_bytes",
     "gpt_load_active_keys_total", "gpt_load_invalid_keys_total",
     "gpt_load_proxy_requests_total", "gpt_load_proxy_request_duration_seconds",
     "gpt_load_key_rotations_total", "gpt_load_key_validation_total"}

NoSample == [method |-> "", route |-> "", path |-> "", status |-> 0,
             reqSize |-> 0, written |-> 0]

\* The process before anything of package prometheus has run.  src holds
\* two versions of Init and three of Middleware; init and middleware say
\* which of them the binary is built from.
NoMetrics ==
    [linked |-> FALSE, init |-> "", middleware |-> "",
     registered |-> {}, inits |-> 0, err |-> "", panicked |-> FALSE,
     requests |-> 0, durations |-> 0, requestSizes |-> 0, responseSizes |-> 0,
     endpoints |-> {}, sample |-> NoSample]

\* No adapter call is under way.
NoAdapterCall == [op |-> "none"]

Init ==
    /\ store = {}
    /\ nextId = 1
    /\ now = 0
    /\ keys = [k \in KeyIds |-> KeyStatusActive]
    /\ served = 0
    /\ pc = [w \in Workers |-> "idle"]
    /\ tx = [w \in Workers |-> NoTx]
    /\ last = [w \in Workers |-> NoCall]
    /\ call = NoAdapterCall
    /\ metrics = NoMetrics

DbFailures == {"none", "lookup", "write"}

\* The provider answers only a group whose adapter sends a request.
NoResponse == [kind |-> "transport", data |-> <<>>]

\* What the provider of group g may answer; without a catalog when the
\* provider is down.
ResponsesOf(g, up) ==
    IF up /\ g \in GroupIds /\ GetChannel(GroupTable[g]) = ""
          /\ GroupTable[g].upstreams > 0
    THEN Responses(GroupTable[g].channel_type)
    ELSE {NoResponse}

\* Requests for the groups of G.
DoFetchModels(w, G, up) ==
    \/ FetchModelsHandler(w, FALSE, MissingGroup, NoResponse)
    \/ \E g \in G : \E resp \in ResponsesOf(g, up) :
          FetchModelsHandler(w, TRUE, g, resp)

DoRefreshModels(w, G, P, up) ==
    \/ RefreshModelsHandler(w, FALSE, MissingGroup, <<"absent">>, NoResponse)
    \/ \E g \in G, param \in P :
          \E resp \in ResponsesOf(g, up) :
              RefreshModelsHandler(w, TRUE, g, param, resp)

\* A step of the transaction, with the statement failures of D.
DoTxStep(w, D) == \E fail \in D : TxStep(w, fail)

DoUpdateModel(w, F) ==
    \/ \E idValid, reqValid \in BOOLEAN :
          /\ ~(idValid /\ reqValid)
          /\ UpdateModel(w, idValid, 1, reqValid, [f \in RequestFields |-> Absent])
    \/ \E id \in RowIds, q \in UpdateModelRequests(F) :
          UpdateModel(w, TRUE, id, TRUE, q)

DoServiceUpdate(w, U) == \E id \in RowIds, u \in U : ServiceUpdate(w, id, u)

DoDeleteModel(w) ==
    \/ DeleteModelHandler(w, FALSE, 1)
    \/ \E id \in RowIds : DeleteModelHandler(w, TRUE, id)

DoPlaygroundChat(w, N) ==
    \/ PlaygroundChat(w, FALSE, "nope", 0, FALSE, FALSE)
    \/ \E name \in N, k \in KeyIds \cup {0}, decOK \in BOOLEAN, upOK \in BOOLEAN :
          /\ decOK \/ ~upOK
          /\ k = 0 => AcquireRandom(keys, GroupByName(name)) = {}
          /\ PlaygroundChat(w, TRUE, name, k, decOK, upOK)

DoMarkInvalid == \E k \in RotatedKeys : MarkInvalid(k)

DoMarkActive == \E k \in RotatedKeys : MarkActive(k)

\* The registry under fetch requests, one request at a time: an OpenAI
\* group, a group of an unregistered channel type, a group without
\* upstream.
StoreGroups == {1, 4, 5, MissingGroup}

NextStore ==
    \/ DoFetchModels(1, StoreGroups, TRUE)
    \/ DoTxStep(1, DbFailures)
    \/ TxCommit(1)
    \/ DoUpdateModel(1, {"supports_vision", "custom_capabilities"})
    \/ DoServiceUpdate(1, {MakeManual})
    \/ DoDeleteModel(1)
    \/ Respond(1)
    \/ Tick

SpecStore == Init /\ [][NextStore]_vars

\* The registry of a group whose provider publishes token limits.
NextLimits ==
    \/ DoFetchModels(1, {3}, TRUE)
    \/ DoTxStep(1, {"none"})
    \/ TxCommit(1)
    \/ DoUpdateModel(1, {"supports_functions", "max_tokens", "max_input_tokens"})
    \/ DoServiceUpdate(1, {Rename})
    \/ Respond(1)

SpecLimits == Init /\ [][NextLimits]_vars

\* The registry under refresh requests, one request at a time, without
\* stale_hours and with stale_hours=1.
RefreshGroups == {1, MissingGroup}

NextRefresh ==
    \/ DoRefreshModels(1, RefreshGroups, {<<"absent">>, <<"int", 1>>}, TRUE)
    \/ DoTxStep(1, {"none"})
    \/ TxCommit(1)
    \/ DoServiceUpdate(1, {MakeManual, ClearFetched})
    \/ Respond(1)
    \/ Tick

SpecRefresh == Init /\ [][NextRefresh]_vars

\* The registry of one group under update requests and direct calls of
\* the service's update operation.
NextPatch ==
    \/ DoFetchModels(1, {1}, TRUE)
    \/ DoTxStep(1, {"none"})
    \/ TxCommit(1)
    \/ DoUpdateModel(1, {"supports_vision", "max_tokens", "max_input_tokens",
                        "max_output_tokens", "custom_capabilities"})
    \/ DoServiceUpdate(1, {NoUpdates, MakeManual, Rename, Rekey})
    \/ Respond(1)

SpecPatch == Init /\ [][NextPatch]_vars

\* Key selection, one request at a time, while the key pool changes the
\* status of keys and the providers are down.
KeyGroups == {1, 2, 5, MissingGroup}

NextKeys ==
    \/ DoPlaygroundChat(1, GroupNames)
    \/ DoFetchModels(1, KeyGroups, FALSE)
    \/ DoRefreshModels(1, KeyGroups, {<<"absent">>}, FALSE)
    \/ Respond(1)
    \/ DoMarkInvalid
    \/ DoMarkActive

SpecKeys == Init /\ [][NextKeys]_vars

\* Fetch, update and delete requests for one group served concurrently;
\* the database fails no statement but for the unique index.
ConcGroups == {1}

Request(w) ==
    \/ DoFetchModels(w, ConcGroups, TRUE)
    \/ DoTxStep(w, {"none"})
    \/ TxCommit(w)
    \/ DoServiceUpdate(w, {Rekey})
    \/ DoDeleteModel(w)
    \/ Respond(w)

Next == \E w \in Workers : Request(w)

Spec == Init /\ [][Next]_vars

----------------------------------------------------------------------------
(* Properties *)

\* C1: FetchAndStoreModels is idempotent.  A successful call whose listed
\* model ids are all stored for the group already, as they are when the
\* call repeats an earlier one with the same list, leaves the number of
\* rows of the group unchanged and every row's custom_capabilities
\* unchanged.
C1_FetchIdempotent ==
    \A w \in Workers :
        (/\ pc[w] = "done" /\ last[w].invoked = 1 /\ last[w].err = ""
         /\ CapIds(tx[w].caps) \subseteq
                {r.model_id : r \in RowsOf(tx[w].pre, tx[w].group)})
        => /\ Cardinality(RowsOf(store, tx[w].group))
                = Cardinality(RowsOf(tx[w].pre, tx[w].group))
           /\ \A r \in tx[w].pre : \E q \in store :
                 q.id = r.id /\ q.custom_capabilities = r.custom_capabilities

\* A second fetch of both models of a group, one of them with patched
\* custom_capabilities, has succeeded.
C1_Witness ==
    \E w \in Workers :
        /\ pc[w] = "done" /\ last[w].invoked = 1 /\ last[w].err = ""
        /\ Cardinality(RowsOf(tx[w].pre, tx[w].group)) = 2
        /\ \A r \in RowsOf(tx[w].pre, tx[w].group) :
              r.model_id \in CapIds(tx[w].caps) /\ r.last_fetched_at # Null
        /\ \E r \in RowsOf(store, tx[w].group) :
              r.custom_capabilities \in CustomValues

\* C2: a fetch never writes custom_capabilities of an existing row: the
\* end of FetchAndStoreModels leaves the custom_capabilities of every row
\* that was stored before as it was, so that a value V patched between two
\* fetches is the row's value after the second fetch.
C2_CustomPreserved ==
    [][\A w \in Workers :
          (pc[w] = "tx" /\ pc'[w] = "done")
          => \A r \in store : \A q \in store' :
                q.id = r.id => q.custom_capabilities = r.custom_capabilities]_vars

\* A fetch has updated a row whose custom_capabilities had been patched
\* after an earlier fetch, and the row holds the patched value.
C2_Witness ==
    \E w \in Workers :
        /\ pc[w] = "done" /\ last[w].invoked = 1 /\ last[w].err = ""
        /\ \E r \in store :
              /\ r.id \in UpdatedIds(tx[w].pending)
              /\ r.custom_capabilities \in CustomValues
              /\ r.last_fetched_at = Some(last[w].at)

C4_AllOrNothing ==
    [][\A w \in Workers :
          (pc[w] = "tx" /\ pc'[w] = "done")
          => /\ tx[w].i <= Len(tx[w].caps) => last'[w].err # ""
             /\ last'[w].err # "" => store' = tx[w].pre]_vars

\* A call failed after its transaction had written a row, and the store is
\* as before the call.
C4_Witness ==
    \E w \in Workers :
        /\ pc[w] = "done" /\ last[w].invoked = 1 /\ last[w].err # ""
        /\ Len(tx[w].pending) > 0
        /\ ApplyWrites(tx[w].pre, tx[w].pending) # tx[w].pre
        /\ store = tx[w].pre

C7_DecryptFailure ==
    [][\A w \in Workers :
          (pc[w] = "idle" /\ pc'[w] # "idle" /\ last'[w].decrypt = "failed")
          => /\ last'[w].status = 500 /\ last'[w].err # ""
             /\ ~last'[w].sent
             /\ keys' = keys]_vars

\* A playground request ended with a decryption failure on an active key.
C7_Witness ==
    \E w \in Workers :
        /\ pc[w] = "done" /\ last[w].handler = "playground"
        /\ last[w].decrypt = "failed" /\ last[w].acquired # 0
        /\ keys[last[w].acquired] = KeyStatusActive

\* C8: when the adapter's FetchModels fails (unknown channel, no upstream,
\* transport error, status other than 200, unparseable body) or returns an
\* empty list, FetchAndStoreModels returns an error without opening its
\* transaction and the store is unchanged; a transaction is open only
\* after a non-empty list was obtained.
C8_NoWriteWithoutList ==
    /\ [](\A w \in Workers :
            pc[w] = "tx" => Len(tx[w].caps) > 0 /\ last[w].upstream = "ok")
    /\ [][\A w \in Workers :
            (/\ pc[w] = "idle" /\ last'[w].invoked = 1
             /\ \/ GetChannel(GroupTable[last'[w].group]) # ""
                \/ GroupTable[last'[w].group].upstreams = 0
                \/ last'[w].upstream \in {"transport", "status", "badjson", "empty"})
            => /\ pc'[w] = "done" /\ last'[w].err # ""
               /\ tx'[w] = NoTx /\ store' = store]_vars

\* A fetch for a group that has rows got an empty list and failed.
C8_Witness ==
    \E w \in Workers :
        /\ pc[w] = "done" /\ last[w].invoked = 1
        /\ last[w].upstream = "empty" /\ last[w].err # ""
        /\ RowsOf(store, last[w].group) # {}

\* C9: after a successful FetchAndStoreModels every row of the group whose
\* model id was listed has is_auto_fetched = true and last_fetched_at equal
\* to the time of the fetch, whether it was inserted or existed before.
C9_FetchedRowsStamped ==
    \A w \in Workers :
        (pc[w] = "done" /\ last[w].invoked = 1 /\ last[w].err = "")
        => \A r \in RowsOf(store, tx[w].group) :
              r.model_id \in CapIds(tx[w].caps)
              => r.is_auto_fetched /\ r.last_fetched_at = Some(last[w].at)

\* A fetch at a later hour has succeeded for a row that was manual, with
\* last_fetched_at null, before.
C9_Witness ==
    \E w \in Workers :
        /\ pc[w] = "done" /\ last[w].invoked = 1 /\ last[w].err = ""
        /\ last[w].at > 0
        /\ \E r \in RowsOf(tx[w].pre, tx[w].group) :
              /\ r.model_id \in CapIds(tx[w].caps)
              /\ ~r.is_auto_fetched /\ r.last_fetched_at = Null

\* C10: the update FetchAndStoreModels issues for an existing row sets
\* model_name and the three supports_ flags to the fetched capability's
\* values, sets each of max_tokens, max_input_tokens and max_output_tokens
\* that the capability carries as non-null, and leaves a limit that is
\* null in the capability at the row's value.
C10_UpdateOverwrites ==
    [][\A w \in Workers :
          (pc[w] = "tx" /\ pc'[w] = "tx" /\ tx'[w].i = tx[w].i + 1)
          => LET c == tx[w].caps[tx[w].i]
                 old == ApplyWrites(store, tx[w].pending)
                 new == ApplyWrites(store', tx'[w].pending)
                 Limit(v, cur) == IF v # Null THEN v ELSE cur
             IN  \A r \in old :
                    (r.group_id = c.group_id /\ r.model_id = c.model_id)
                    => \E q \in new :
                          /\ q.id = r.id
                          /\ q.model_name = c.model_name
                          /\ q.supports_streaming = c.supports_streaming
                          /\ q.supports_vision = c.supports_vision
                          /\ q.supports_functions = c.supports_functions
                          /\ q.max_tokens = Limit(c.max_tokens, r.max_tokens)
                          /\ q.max_input_tokens
                                = Limit(c.max_input_tokens, r.max_input_tokens)
                          /\ q.max_output_tokens
                                = Limit(c.max_output_tokens, r.max_output_tokens)]_vars

\* A fetch has updated a row whose max_tokens had been entered by hand and
\* whose max_input_tokens came from an earlier fetch, with a capability that
\* carries max_tokens but no max_input_tokens.
C10_Witness ==
    \E w \in Workers :
        /\ pc[w] = "tx" /\ tx[w].i > 1
        /\ LET wr == tx[w].pending[tx[w].i - 1]
           IN  /\ wr.op = "update"
               /\ "max_tokens" \in DOMAIN wr.set
               /\ "max_input_tokens" \notin DOMAIN wr.set
               /\ \E r \in store :
                     /\ r.id = wr.id
                     /\ r.max_tokens = Some(ManualLimit)
                     /\ r.max_input_tokens = Some(ProviderLimit)

----------------------------------------------------------------------------
(* Patches of a row *)

\* A patch of worker w has just run: the handler UpdateModel got past its
\* two validations, or the service's update operation was called.
Patched(w) ==
    /\ pc[w] = "idle" /\ pc'[w] = "done"
    /\ last'[w].handler \in {"update", "service_update"}
    /\ Len(last'[w].updates) = 1

LimitFields == {"max_tokens", "max_input_tokens", "max_output_tokens"}

\* C11: a patch, by the handler UpdateModel or by a call of
\* UpdateModelCapability with any update map, leaves id, group_id,
\* model_id, model_name, is_auto_fetched and last_fetched_at of the row
\* as they were, and changes no other row.
C11_PatchFrame ==
    [][\A w \in Workers :
          Patched(w)
          => /\ {r.id : r \in store'} = {r.id : r \in store}
             /\ \A r \in store : \E n \in store' :
                   /\ n.id = r.id
                   /\ n.group_id = r.group_id
                   /\ n.model_id = r.model_id
                   /\ n.model_name = r.model_name
                   /\ n.is_auto_fetched = r.is_auto_fetched
                   /\ n.last_fetched_at = r.last_fetched_at
                   /\ (r.id # last'[w].target => n = r)]_vars

C13_LimitThreeWay ==
    [][\A w \in Workers :
          (Patched(w) /\ last'[w].handler = "update" /\ last'[w].err = "")
          => \A f \in LimitFields :
                LET x == last'[w].request[1][f]
                IN  \A r \in store : \A n \in store' :
                       (r.id = last'[w].target /\ n.id = r.id)
                       => n[f] = (CASE x = Absent -> r[f]
                                    [] x = JNull -> Null
                                    [] OTHER -> Some(x[2]))]_vars

----------------------------------------------------------------------------
(* Channel adapters: IsStreamRequest *)

\* What the adapters leave alone.
server == <<store, nextId, now, keys, served, pc, tx, last, metrics>>

Adapters == {"openai", "anthropic"}

\* Accept headers, as sequences of tokens; none sent is the empty one.
AcceptValues ==
    {<<>>, <<"application/json">>, <<"text/event-stream">>,
     <<"application/json", ",", "text/event-stream">>,
     <<"text/event-stream", ";", "q=0.9">>, <<"text/html">>}

\* Values of the query parameter stream; c.Query gives "" for none.
QueryValues == {"", "true", "false", "1", "TRUE"}

\* The JSON value true of a field of a body; <<"bool", FALSE>>, JNull,
\* <<"string", s>> and <<"number", n>> are the others.
JTrue == <<"bool", TRUE>>

\* Bodies: no bytes, bytes that are not JSON, JSON that is not an object,
\* JSON null, and objects with and without a field stream.
Bodies ==
    {<<"empty">>, <<"garbage">>, <<"array">>, <<"string">>, <<"null">>,
     <<"object", <<>>>>,
     <<"object", [model |-> <<"string", "m">>]>>}
    \cup {<<"object", [stream |-> v]>> :
              v \in {JTrue, <<"bool", FALSE>>, JNull, <<"string", "true">>,
                     <<"number", 1>>}}
    \cup {<<"object", [model |-> <<"string", "m">>, stream |-> v]>> :
              v \in {JTrue, <<"bool", FALSE>>}}

\* json.Unmarshal(bodyBytes, &p) for p of type struct{ Stream bool }: an
\* error for bytes that are not JSON, for a JSON value that is neither an
\* object nor null, and for a stream that is neither a boolean nor null;
\* null and a missing field leave Stream at false.
Unmarshal(body) ==
    CASE body[1] \in {"empty", "garbage", "array", "string"}
           -> [err |-> TRUE, Stream |-> FALSE]
      [] body[1] = "null" -> [err |-> FALSE, Stream |-> FALSE]
      [] OTHER ->
           IF "stream" \notin DOMAIN body[2] \/ body[2].stream = JNull
           THEN [err |-> FALSE, Stream |-> FALSE]
           ELSE IF body[2].stream[1] = "bool"
           THEN [err |-> FALSE, Stream |-> body[2].stream[2]]
           ELSE [err |-> TRUE, Stream |-> FALSE]

\* IsStreamRequest without the check of the query parameter.
IsStreamRequest_NoQuery(adapter, accept, query, body) ==
    IF Contains(accept, <<"text/event-stream">>) THEN TRUE
    ELSE LET p == Unmarshal(body)
         IN  IF ~p.err THEN p.Stream ELSE FALSE

\* OpenAIChannel.IsStreamRequest and AnthropicChannel.IsStreamRequest: the
\* two bodies are the same.
IsStreamRequest(adapter, accept, query, body) ==
    IF Contains(accept, <<"text/event-stream">>) THEN TRUE
    ELSE IF query = "true" THEN TRUE
    ELSE LET p == Unmarshal(body)
         IN  IF ~p.err THEN p.Stream ELSE FALSE

\* A proxied request reaches an adapter.
StreamRequestArrives ==
    /\ call.op = "none"
    /\ \E a \in Adapters, h \in AcceptValues, q \in QueryValues, b \in Bodies :
          call' = [op |-> "stream", at |-> "start", adapter |-> a,
                   accept |-> h, query |-> q, body |-> b, stream |-> FALSE]
    /\ UNCHANGED server

DoIsStreamRequest ==
    /\ call.op = "stream" /\ call.at = "start"
    /\ call' = [call EXCEPT !.at = "done",
                   !.stream = IsStreamRequest(call.adapter, call.accept,
                                              call.query, call.body)]
    /\ UNCHANGED server

\* The adapter call is over.
CallReturns ==
    /\ call.op # "none" /\ call.at = "done"
    /\ call' = NoAdapterCall
    /\ UNCHANGED server

NextStream ==
    \/ StreamRequestArrives
    \/ DoIsStreamRequest
    \/ CallReturns

SpecStream == Init /\ [][NextStream]_vars

\* The three signals of a streaming request, read off the request.
HeaderSignal(accept) ==
    \E i \in 1..Len(accept) : accept[i] = "text/event-stream"
QuerySignal(query) == query = "true"
BodySignal(body) ==
    /\ body[1] = "object"
    /\ "stream" \in DOMAIN body[2]
    /\ body[2].stream = JTrue

\* C14: IsStreamRequest of either adapter answers true exactly when the
\* Accept header contains text/event-stream, the query parameter stream is
\* "true", or the body is JSON with stream = true; a body that is not
\* JSON gives no signal and no error.
C14_StreamSignals ==
    (call.op = "stream" /\ call.at = "done")
    => /\ call.stream \in BOOLEAN
       /\ call.stream <=> \/ HeaderSignal(call.accept)
                          \/ QuerySignal(call.query)
                          \/ BodySignal(call.body)

\* The adapter has classified a request whose body is not JSON and whose
\* only signal is the query parameter.
C14_Witness ==
    /\ call.op = "stream" /\ call.at = "done"
    /\ call.body = <<"garbage">>
    /\ call.query = "true"
    /\ ~HeaderSignal(call.accept)
    /\ call.stream

----------------------------------------------------------------------------
(* Channel adapters: the outbound requests of ValidateKey and FetchModels *)

\* strings.TrimRight(s, "/")
RECURSIVE TrimRight(_)
TrimRight(s) ==
    IF s # <<>> /\ s[Len(s)] = "/"
    THEN TrimRight(SubSeq(s, 1, Len(s) - 1))
    ELSE s

\* strings.TrimSuffix(s, "/")
TrimSuffix(s) ==
    IF s # <<>> /\ s[Len(s)] = "/" THEN SubSeq(s, 1, Len(s) - 1) ELSE s

\* What getUpstreamURL gives: nil, or a parsed URL.  Paths are sequences
\* of "/" and segments.
\* ok is false for nil.
NoUpstream == [ok |-> FALSE, scheme |-> "", host |-> "", path |-> <<>>,
               query |-> ""]

Upstreams ==
    {NoUpstream}
    \cup [ok : {TRUE}, scheme : {"https"}, host : {"api.example"},
          path : {<<>>, <<"/">>, <<"/", "base">>, <<"/", "base", "/">>,
                  <<"/", "base", "/", "/">>, <<"/", "a", "/", "b", "/">>},
          query : {"", "k=1"}]
    \cup [ok : {TRUE}, scheme : {"http"}, host : {"localhost:8080"},
          path : {<<"/", "base", "/">>}, query : {""}]

\* ch.ValidationEndpoint under url.Parse: an error, or a path and a query.
Endpoints ==
    {[ok |-> FALSE, path |-> <<>>, query |-> ""]}
    \cup [ok : {TRUE},
          path : {<<"/", "v1", "/", "chat">>, <<>>},
          query : {"", "beta=true"}]

\* The composition with only one trailing slash removed.
ComposeURL_TrimSuffix(up, ep) ==
    [up EXCEPT !.path = TrimSuffix(up.path) \o ep.path, !.query = ep.query]

\* Lines 90-92 of ValidateKey: the probe's URL.
ComposeURL(up, ep) ==
    [up EXCEPT !.path = TrimRight(up.path) \o ep.path, !.query = ep.query]

\* Lines 151-152 of FetchModels: the catalog's URL.
ModelsURL(up) ==
    [up EXCEPT !.path = TrimRight(up.path) \o <<"/", "v1", "/", "models">>]

\* Responses to the probe: the transport fails, or a status arrives with
\* a body that can or cannot be read to its end.
Unreadable == "unreadable"

ProbeResponses ==
    {[kind |-> "transport", status |-> 0, body |-> ""]}
    \cup [kind : {"status"}, status : {200, 204, 299, 300, 401, 500},
          body : {"b1", "b2"} \cup {Unreadable}]

\* app_errors.ParseUpstreamError: the message extracted from a body.
ParseUpstreamError(body) == <<"message of", body>>

\* The error of a probe: its kind, and for a status its number and text.
NoError == <<>>
ProbeError(kind) == <<kind>>

\* The result that takes only status 200 as valid.
ValidateKeyResult_Only200(resp) ==
    IF resp.kind = "transport"
    THEN [valid |-> FALSE, err |-> ProbeError("send")]
    ELSE IF resp.status = 200
    THEN [valid |-> TRUE, err |-> NoError]
    ELSE IF resp.body = Unreadable
    THEN [valid |-> FALSE, err |-> <<"read_body", resp.status>>]
    ELSE [valid |-> FALSE,
          err |-> <<"status", resp.status, ParseUpstreamError(resp.body)>>]

\* Lines 120-140 of ValidateKey: what it returns for a response.
ValidateKeyResult(resp) ==
    IF resp.kind = "transport"
    THEN [valid |-> FALSE, err |-> ProbeError("send")]
    ELSE IF resp.status >= 200 /\ resp.status < 300
    THEN [valid |-> TRUE, err |-> NoError]
    ELSE IF resp.body = Unreadable
    THEN [valid |-> FALSE, err |-> <<"read_body", resp.status>>]
    ELSE [valid |-> FALSE,
          err |-> <<"status", resp.status, ParseUpstreamError(resp.body)>>]

\* Lines 111-112 of OpenAIChannel.ValidateKey and 113-115 of
\* AnthropicChannel.ValidateKey (159-160 and 162-164 of FetchModels): the
\* headers the channel sets itself.
NativeHeaders(adapter) ==
    IF adapter = "openai"
    THEN [h \in {"Authorization", "Content-Type"} |->
             IF h = "Authorization" THEN "Bearer sk-1" ELSE "application/json"]
    ELSE [h \in {"x-api-key", "anthropic-version", "Content-Type"} |->
             CASE h = "x-api-key" -> "sk-1"
               [] h = "anthropic-version" -> "2023-06-01"
               [] OTHER -> "application/json"]

\* A header rule of the group: set a header to a value, or remove it.
HeaderRules ==
    [action : {"set"}, name : {"Authorization", "x-api-key", "X-Trace"},
     value : {"r1"}]
    \cup [action : {"set"}, name : {"X-Trace"}, value : {"r2"}]
    \cup [action : {"remove"}, name : {"Authorization", "anthropic-version"},
          value : {""}]

\* One rule of utils.ApplyHeaderRules on the headers of a request.
ApplyHeaderRule(headers, rule) ==
    IF rule.action = "set"
    THEN [h \in DOMAIN headers \cup {rule.name} |->
             IF h = rule.name THEN rule.value ELSE headers[h]]
    ELSE [h \in DOMAIN headers \ {rule.name} |-> headers[h]]

NoHeaders == [h \in {} |-> ""]

\* The call as ValidateKey or FetchModels starts it: nothing built yet.
NewCall(op, adapter, up, ep, rules) ==
    [op |-> op, at |-> "start", adapter |-> adapter, upstream |-> up,
     endpoint |-> ep, rules |-> rules, i |-> 1, url |-> NoUpstream,
     headers |-> NoHeaders, wire |-> NoHeaders, bound |-> FALSE,
     ctx |-> "live", response |-> [kind |-> "none", status |-> 0, body |-> ""], valid |-> FALSE,
     err |-> NoError, catalog |-> <<>>, caps |-> <<>>, content |-> ""]

\* Lines 78-110 of ValidateKey and 145-158 of FetchModels: the upstream is
\* resolved, the endpoint parsed (ValidateKey only), the URL composed and
\* the request created with the caller's context.
CreateRequest(op, adapter, up, ep, rules) ==
    /\ call.op = "none"
    /\ LET c == NewCall(op, adapter, up, ep, rules)
       IN  call' =
             IF ~up.ok
             THEN [c EXCEPT !.at = "done", !.err = ProbeError("no_upstream")]
             ELSE IF op = "validate" /\ ~ep.ok
             THEN [c EXCEPT !.at = "done", !.err = ProbeError("parse_endpoint")]
             ELSE [c EXCEPT !.at = "created", !.bound = TRUE,
                            !.url = IF op = "validate" THEN ComposeURL(up, ep)
                                    ELSE ModelsURL(up)]
    /\ UNCHANGED server

\* req.Header.Set for each header of the channel's own.
SetNativeHeaders ==
    /\ call.op \in {"validate", "fetch_models"} /\ call.at = "created"
    /\ call' = [call EXCEPT !.at = "headers",
                            !.headers = NativeHeaders(call.adapter)]
    /\ UNCHANGED server

\* utils.ApplyHeaderRules, entered only for a list that is not empty: the
\* next rule of the list.
ApplyHeaderRules ==
    /\ call.op \in {"validate", "fetch_models"} /\ call.at = "headers"
    /\ Len(call.rules) > 0
    /\ call.i <= Len(call.rules)
    /\ call' = [call EXCEPT !.i = call.i + 1,
                   !.headers = ApplyHeaderRule(call.headers, call.rules[call.i])]
    /\ UNCHANGED server

\* The dispatch that does not wait for the header rules.
Dispatch_BeforeRules ==
    /\ call.op \in {"validate", "fetch_models"} /\ call.at = "headers"
    /\ call' = [call EXCEPT !.at = "sent", !.wire = call.headers]
    /\ UNCHANGED server

\* ch.HTTPClient.Do(req): the request goes out with the headers it has;
\* for a request whose context is cancelled already, Do returns the
\* context's error and nothing goes out.
Dispatch ==
    /\ call.op \in {"validate", "fetch_models"} /\ call.at = "headers"
    /\ call.i > Len(call.rules)
    /\ call' = IF call.bound /\ call.ctx = "cancelled"
               THEN [call EXCEPT !.at = "done", !.err = ProbeError("send")]
               ELSE [call EXCEPT !.at = "sent", !.wire = call.headers]
    /\ UNCHANGED server

\* The probe's response arrives and ValidateKey returns.
ProbeResponds(resp) ==
    /\ call.op = "validate" /\ call.at = "sent"
    /\ LET res == ValidateKeyResult(resp)
       IN  call' = [call EXCEPT !.at = "done", !.valid = res.valid,
                                !.err = res.err, !.response = resp]
    /\ UNCHANGED server

\* Key validation against every upstream and validation endpoint, for a
\* group without header rules.
NextProbe ==
    \/ \E a \in Adapters, up \in Upstreams, ep \in Endpoints :
          CreateRequest("validate", a, up, ep, <<>>)
    \/ SetNativeHeaders
    \/ Dispatch
    \/ \E resp \in ProbeResponses : ProbeResponds(resp)
    \/ CallReturns

SpecProbe == Init /\ [][NextProbe]_vars

Returned(op) == call.op = op /\ call.at = "done"

Is2xx(resp) == resp.kind = "status" /\ resp.status \in 200..299

\* C15 as stated: ValidateKey returns valid without an error exactly for
\* a status in 200..299, for every other status N the reason
\* "[status N] <message of the upstream-error parser>", and for a missing
\* upstream, an unparseable endpoint or a transport failure invalid with
\* an error; never valid together with an error.
C15_ProbeOutcome_AsStated ==
    Returned("validate")
    => /\ (call.valid /\ call.err = NoError) <=> Is2xx(call.response)
       /\ (call.response.kind = "status" /\ ~Is2xx(call.response))
          => /\ ~call.valid
             /\ call.err = <<"status", call.response.status,
                             ParseUpstreamError(call.response.body)>>
       /\ (~call.upstream.ok \/ ~call.endpoint.ok
           \/ call.response.kind = "transport")
          => (~call.valid /\ call.err # NoError)
       /\ ~(call.valid /\ call.err # NoError)

\* C15: ValidateKey returns valid without an error exactly for a status
\* in 200..299; for every other status N whose body can be read the reason
\* is "[status N] <message of the upstream-error parser>"; when that body
\* cannot be read, and for a missing upstream, an unparseable endpoint or
\* a transport failure, it returns invalid with an error; it never returns
\* valid together with an error.
C15_ProbeOutcome ==
    Returned("validate")
    => /\ (call.valid /\ call.err = NoError) <=> Is2xx(call.response)
       /\ (call.response.kind = "status" /\ ~Is2xx(call.response))
          => /\ ~call.valid
             /\ IF call.response.body # Unreadable
                THEN call.err = <<"status", call.response.status,
                                  ParseUpstreamError(call.response.body)>>
                ELSE call.err # NoError /\ call.err[1] # "status"
       /\ (~call.upstream.ok \/ ~call.endpoint.ok
           \/ call.response.kind = "transport")
          => (~call.valid /\ call.err # NoError)
       /\ ~(call.valid /\ call.err # NoError)

\* ValidateKey has returned for a probe answered with status 401 and a
\* body it could read.
C15_Witness ==
    /\ Returned("validate")
    /\ call.response.kind = "status"
    /\ call.response.status = 401
    /\ call.response.body = "b1"
    /\ ~call.valid
    /\ call.err[1] = "status"

DoubledSlash(p) == \E i \in 1..(Len(p) - 1) : p[i] = "/" /\ p[i + 1] = "/"

\* C16: the URL of the validation probe has the upstream's scheme and
\* host, as path the upstream's path without any of its trailing slashes
\* followed by the endpoint's path, and as query the endpoint's query; the
\* join adds no doubled slash.
C16_ProbeURL ==
    (call.op = "validate" /\ call.url.ok)
    => LET up == call.upstream
           ep == call.endpoint
           u == call.url
       IN  /\ u.scheme = up.scheme
           /\ u.host = up.host
           /\ u.query = ep.query
           /\ \E n \in 0..Len(up.path) :
                 LET stem == SubSeq(up.path, 1, Len(up.path) - n)
                 IN  /\ \A i \in (Len(up.path) - n + 1)..Len(up.path) :
                           up.path[i] = "/"
                     /\ (stem = <<>> \/ stem[Len(stem)] # "/")
                     /\ u.path = stem \o ep.path
                     /\ (~DoubledSlash(stem) /\ ~DoubledSlash(ep.path))
                        => ~DoubledSlash(u.path)

\* A probe has been built for an upstream with the path /base/ and a query
\* of its own, and an endpoint with a query.
C16_Witness ==
    /\ call.op = "validate" /\ call.at = "sent"
    /\ call.upstream.path = <<"/", "base", "/">>
    /\ call.upstream.query = "k=1"
    /\ call.endpoint.query = "beta=true"
    /\ call.url.path = <<"/", "base", "/", "v1", "/", "chat">>
    /\ call.url.query = "beta=true"

----------------------------------------------------------------------------
(* Channel adapters: headers of the outbound request *)

\* The group whose adapter makes the call.
AdapterGroup(adapter) == IF adapter = "openai" THEN 1 ELSE 2

\* The catalog's response arrives and FetchModels returns.
CatalogResponds(resp) ==
    /\ call.op = "fetch_models" /\ call.at = "sent"
    /\ LET res == FetchModels(GroupTable[AdapterGroup(call.adapter)], resp, now)
       IN  call' = [call EXCEPT !.at = "done",
                       !.response = [kind |-> resp.kind, status |-> 0, body |-> ""],
                       !.catalog = resp.data,
                       !.err = IF res.err = "" THEN NoError ELSE ProbeError(res.err),
                       !.caps = res.caps]
    /\ UNCHANGED server

\* Longest list of header rules of a group.
MaxRules == 2

PlainUpstream == [ok |-> TRUE, scheme |-> "https", host |-> "api.example",
                  path |-> <<"/", "base">>, query |-> ""]
PlainEndpoint == [ok |-> TRUE, path |-> <<"/", "v1", "/", "chat">>, query |-> ""]

\* Both calls of both adapters for groups with every list of header rules.
NextHeaders ==
    \/ \E op \in {"validate", "fetch_models"}, a \in Adapters,
          rules \in UNION {[1..n -> HeaderRules] : n \in 0..MaxRules} :
          CreateRequest(op, a, PlainUpstream, PlainEndpoint, rules)
    \/ SetNativeHeaders
    \/ ApplyHeaderRules
    \/ Dispatch
    \/ \E resp \in {r \in ProbeResponses : r.body # "b2"} : ProbeResponds(resp)
    \/ \E resp \in FailedResponses : CatalogResponds(resp)
    \/ CallReturns

SpecHeaders == Init /\ [][NextHeaders]_vars

HeaderNames == {"Authorization", "Content-Type", "x-api-key",
                "anthropic-version", "X-Trace"}

\* The last rule of a list that names header h; 0 if none does.
LastRule(rules, h) ==
    LET at == {i \in 1..Len(rules) : rules[i].name = h}
    IN  IF at = {} THEN 0 ELSE CHOOSE i \in at : \A j \in at : j <= i

\* headers are the channel's own, overridden by the rules in list order.
NativeThenRules(headers, adapter, rules) ==
    \A h \in HeaderNames :
        LET k == LastRule(rules, h)
            native == NativeHeaders(adapter)
        IN  IF k = 0
            THEN /\ h \in DOMAIN headers <=> h \in DOMAIN native
                 /\ h \in DOMAIN native => headers[h] = native[h]
            ELSE IF rules[k].action = "set"
            THEN h \in DOMAIN headers /\ headers[h] = rules[k].value
            ELSE h \notin DOMAIN headers

HeaderOrder ==
    (call.op \in {"validate", "fetch_models"} /\ call.url.ok)
    => /\ call.at = "created" => (call.headers = NoHeaders /\ call.i = 1)
       /\ call.at = "headers"
          => NativeThenRules(call.headers, call.adapter,
                             SubSeq(call.rules, 1, call.i - 1))
       /\ call.at \in {"sent", "done"}
          => /\ call.i = Len(call.rules) + 1
             /\ call.wire = call.headers
             /\ NativeThenRules(call.wire, call.adapter, call.rules)

HeadersFrozen ==
    (call.op \in {"validate", "fetch_models"} /\ call.at = "sent"
         /\ call'.op = call.op)
    => (call'.headers = call.headers /\ call'.wire = call.wire)

\* C17: in a request of ValidateKey or FetchModels the channel's own
\* headers are set first, then the group's header rules are applied in
\* list order, then the request is dispatched: the request goes out with
\* the channel's headers as the rules left them, a rule on a header the
\* channel sets wins, and no header changes after the dispatch.
C17_HeaderOrder == [](HeaderOrder) /\ [][HeadersFrozen]_vars

\* The Anthropic adapter has dispatched a catalog request for a group
\* whose rules set x-api-key and then remove anthropic-version.
C17_Witness ==
    /\ call.op = "fetch_models" /\ call.at = "sent"
    /\ call.adapter = "anthropic"
    /\ Len(call.rules) = 2
    /\ call.rules[1] = [action |-> "set", name |-> "x-api-key", value |-> "r1"]
    /\ call.rules[2].action = "remove"
    /\ call.wire["x-api-key"] = "r1"
    /\ "anthropic-version" \notin DOMAIN call.wire

----------------------------------------------------------------------------
(* Channel adapters: capabilities inferred from a catalog *)

Id_gpt35 == S_gpt35 \o <<"-", "t">>
Id_sonnet == S_claudeSonnet \o <<"-", "4">>
Id_opus == S_claudeOpus \o <<"-", "4">>
Id_claude2 == <<"c", "l", "a", "u", "d", "e", "-", "2">>

CatalogResponses ==
    FailedResponses
    \cup {[kind |-> "ok", data |-> d] :
             d \in UNION {[1..n -> [id : ModelIds \cup {Id_gpt35, Id_sonnet,
                                                         Id_opus, Id_claude2},
                                              limits : {NoLimits}]] :
                             n \in 0..MaxList}}

\* FetchModels of both adapters against every catalog.
NextCatalog ==
    \/ \E a \in Adapters :
          CreateRequest("fetch_models", a, PlainUpstream, PlainEndpoint, <<>>)
    \/ SetNativeHeaders
    \/ Dispatch
    \/ \E resp \in CatalogResponses : CatalogResponds(resp)
    \/ CallReturns
    \/ Tick

SpecCatalog == Init /\ [][NextCatalog]_vars

\* FetchModels of the adapter has returned the capabilities of a catalog.
Listed(adapter) ==
    /\ Returned("fetch_models")
    /\ call.adapter = adapter
    /\ call.response.kind = "ok"

\* C18: OpenAI FetchModels gives one capability per catalog entry, with
\* supports_streaming true, supports_functions true exactly for an id that
\* contains "gpt-4" or "gpt-3.5", and supports_vision true exactly for an
\* id that contains "vision", whatever else the id contains.
C18_OpenAICapabilities ==
    Listed("openai")
    => /\ Len(call.caps) = Len(call.catalog)
       /\ \A i \in 1..Len(call.catalog) :
             LET id == call.catalog[i].id
                 cap == call.caps[i]
             IN  /\ cap.model_id = id
                 /\ cap.supports_streaming
                 /\ cap.supports_functions
                       <=> (Contains(id, S_gpt4) \/ Contains(id, S_gpt35))
                 /\ cap.supports_vision <=> Contains(id, S_vision)

\* C19: Anthropic FetchModels gives one capability per catalog entry, in
\* catalog order, with model_id and model_name the entry's id, group_id
\* the group's id, supports_streaming true, supports_functions false, and
\* supports_vision true exactly for an id that contains "claude-3",
\* "claude-sonnet" or "claude-opus".
C19_AnthropicCapabilities ==
    Listed("anthropic")
    => /\ Len(call.caps) = Len(call.catalog)
       /\ \A i \in 1..Len(call.catalog) :
             LET id == call.catalog[i].id
                 cap == call.caps[i]
             IN  /\ cap.model_id = id
                 /\ cap.model_name = id
                 /\ cap.group_id = AdapterGroup("anthropic")
                 /\ cap.supports_streaming
                 /\ ~cap.supports_functions
                 /\ cap.supports_vision
                       <=> \/ Contains(id, S_claude3)
                           \/ Contains(id, S_claudeSonnet)
                           \/ Contains(id, S_claudeOpus)

\* The Anthropic adapter has returned the capabilities of a catalog that
\* lists a claude-sonnet id and then a claude-2 id.
C19_Witness ==
    /\ Listed("anthropic")
    /\ Len(call.catalog) = 2
    /\ call.catalog[1].id = Id_sonnet
    /\ call.catalog[2].id = Id_claude2
    /\ call.caps[1].supports_vision
    /\ ~call.caps[2].supports_vision

----------------------------------------------------------------------------
(* Cancellation of upstream calls *)

\* Lines 111-117 of callOpenAI (185-190 of callGemini, 256-263 of
\* callAnthropic): the request is created by http.NewRequest, which binds
\* it to no context of the caller, and its headers are set.
CreatePlaygroundRequest(provider) ==
    /\ call.op = "none"
    /\ call' = [NewCall("playground", provider, PlainUpstream, PlainEndpoint, <<>>)
                   EXCEPT !.at = "headers", !.bound = FALSE,
                          !.url = PlainUpstream]
    /\ UNCHANGED server

\* client.Do(httpReq) with a client of its own, Timeout 30 s.
PlaygroundDo ==
    /\ call.op = "playground" /\ call.at = "headers"
    /\ call' = [call EXCEPT !.at = "sent"]
    /\ UNCHANGED server

\* The provider answers, the transport fails, or the client's timeout
\* expires.
PlaygroundResponds(outcome) ==
    /\ call.op = "playground" /\ call.at = "sent"
    /\ call' = [call EXCEPT !.at = "done",
                   !.err = IF outcome = "ok" THEN NoError ELSE ProbeError(outcome)]
    /\ UNCHANGED server

\* The client of the inbound request disconnects: the request's context is
\* cancelled, and with it every call in flight that is bound to it, whose
\* Do returns the context's error.
ClientDisconnects ==
    /\ call.op # "none" /\ call.at # "done"
    /\ call.ctx = "live"
    /\ call' = IF call.bound /\ call.at = "sent"
               THEN [call EXCEPT !.ctx = "cancelled", !.at = "done",
                                 !.err = ProbeError("send")]
               ELSE [call EXCEPT !.ctx = "cancelled"]
    /\ UNCHANGED server

\* Upstream calls of every kind, with clients that may disconnect.
NextCancel ==
    \/ \E op \in {"validate", "fetch_models"}, a \in Adapters,
          up \in {u \in Upstreams : u.query = ""} :
          CreateRequest(op, a, up, PlainEndpoint, <<>>)
    \/ \E p \in {"openai", "gemini", "anthropic"} : CreatePlaygroundRequest(p)
    \/ SetNativeHeaders
    \/ Dispatch
    \/ PlaygroundDo
    \/ \E resp \in ProbeResponses : ProbeResponds(resp)
    \/ \E resp \in FailedResponses : CatalogResponds(resp)
    \/ \E o \in {"ok", "send", "timeout"} : PlaygroundResponds(o)
    \/ ClientDisconnects
    \/ CallReturns

SpecCancel == Init /\ [][NextCancel]_vars

InFlight == call.op # "none" /\ call.at = "sent"

\* C20: every upstream call (ValidateKey, FetchModels, and the Playground
\* calls callOpenAI, callGemini and callAnthropic) is bound to the context
\* of the inbound request: once that context is cancelled, no upstream
\* call of the request is in flight.
C20_CancelPropagates ==
    (call.op # "none" /\ call.ctx = "cancelled") => ~InFlight

----------------------------------------------------------------------------
(* Package prometheus: registration and the HTTP middleware *)

\* What package prometheus leaves alone.
rest == <<store, nextId, now, keys, served, pc, tx, last, call>>

\* Calls of Init and recorded requests in one run.
MaxInits == 3
MaxSamples == 2

\* The binary is built from one version of Init (metrics.go 104-129, which
\* tolerates a collector that is registered already, or 282-295, which
\* uses MustRegister) and one of Middleware (part_001 17-52 and 94-132,
\* which label an unmatched request "unknown", or part_000 558-590, which
\* labels it with its path).
Link(init, middleware) ==
    /\ ~metrics.linked
    /\ metrics' = [metrics EXCEPT !.linked = TRUE, !.init = init,
                                  !.middleware = middleware]
    /\ UNCHANGED rest

\* prometheus.Register of every collector in turn on registry reg: the
\* registry afterwards, and the collectors that were registered already.
RegisterAll(reg) == [registered |-> reg \cup Collectors,
                     already |-> reg \cap Collectors]

\* Init, both versions.  Version "register" skips a collector that is
\* registered already and returns nil; version "must" panics on the first
\* collector that is registered already, before it registers another.
MetricsInit ==
    /\ metrics.linked /\ ~metrics.panicked
    /\ metrics.inits < MaxInits
    /\ LET r == RegisterAll(metrics.registered)
       IN  metrics' =
             IF metrics.init = "must" /\ r.already # {}
             THEN [metrics EXCEPT !.inits = metrics.inits + 1,
                                  !.panicked = TRUE]
             ELSE [metrics EXCEPT !.inits = metrics.inits + 1,
                                  !.registered = r.registered]
    /\ UNCHANGED rest

\* C21: Init can be called any number of times: every call returns
\* without error and without panic, a collector that is registered
\* already counts as success, and the registered series after a later call
\* are those after the first.
C21_InitIdempotent ==
    metrics.inits >= 1
    => /\ ~metrics.panicked
       /\ metrics.err = ""
       /\ metrics.registered = Collectors

\* Route patterns of the router; c.FullPath() is "" when none matches.
Routes == {"/api/models/:modelId", "/metrics"}

\* Requests as the middleware sees them after c.Next(): the method, the
\* matched route, the URL path, the status, the lengths that make up the
\* request's size (ContentLength is -1 when unknown) and the writer's
\* Size(), which is -1 when nothing was written.
Samples ==
    [method : {"GET"},
     target : {<<"/api/models/:modelId", "/api/models/7">>,
               <<"/metrics", "/metrics">>, <<"", "/nope">>, <<"", "/x/1">>},
     status : {200},
     head : {0, 40}, contentLength : {-1, 0, 12},
     written : {-1, 0, 5}]

\* computeApproximateRequestSize: the lengths of path, method, protocol,
\* headers and host (head, added up), plus ContentLength unless it is -1.
computeApproximateRequestSize(r) ==
    r.head + (IF r.contentLength # -1 THEN r.contentLength ELSE 0)

\* The recording that observes a size whatever its value.
RecordHTTPRequest_AllSizes(m, method, endpoint, status, reqSize, respSize) ==
    [m EXCEPT !.requests = m.requests + 1,
              !.durations = m.durations + 1,
              !.requestSizes = m.requestSizes + 1,
              !.responseSizes = m.responseSizes + 1,
              !.endpoints = m.endpoints \cup {endpoint}]

\* RecordHTTPRequest (metrics.go 143-154 and 306-316, the same body) on
\* the series m.
RecordHTTPRequest(m, method, endpoint, status, reqSize, respSize) ==
    [m EXCEPT !.requests = m.requests + 1,
              !.durations = m.durations + 1,
              !.requestSizes = IF reqSize > 0 THEN m.requestSizes + 1
                               ELSE m.requestSizes,
              !.responseSizes = IF respSize > 0 THEN m.responseSizes + 1
                                ELSE m.responseSizes,
              !.endpoints = m.endpoints \cup {endpoint}]

\* Middleware, after c.Next() has run the handlers.  The versions of
\* part_001 turn a writer size below 0 into 0 and label a request without
\* a matched route "unknown"; the version of part_000 passes the writer
\* size on as it is and labels such a request with its URL path.
Middleware(r) ==
    /\ metrics.linked /\ ~metrics.panicked
    /\ metrics.requests < MaxSamples
    /\ LET reqSize == computeApproximateRequestSize(r)
           respSize == IF metrics.middleware = "unknown" /\ r.written < 0
                       THEN 0 ELSE r.written
           endpoint == IF r.target[1] # "" THEN r.target[1]
                       ELSE IF metrics.middleware = "unknown" THEN "unknown"
                       ELSE r.target[2]
       IN  metrics' =
             [RecordHTTPRequest(metrics, r.method, endpoint, r.status,
                                reqSize, respSize)
                 EXCEPT !.sample = [method |-> r.method, route |-> r.target[1],
                                    path |-> r.target[2], status |-> r.status,
                                    reqSize |-> reqSize, written |-> r.written]]
    /\ UNCHANGED rest

NextMetrics ==
    \/ \E i \in {"register", "must"}, m \in {"unknown", "path"} : Link(i, m)
    \/ MetricsInit
    \/ \E r \in Samples : Middleware(r)

SpecMetrics == Init /\ [][NextMetrics]_vars

\* 1 for a size above 0, else 0; a writer size of -1 is a size of 0.
Positive(n) == IF n > 0 THEN 1 ELSE 0

\* C22: every recorded request adds one to http_requests_total and one
\* observation to the duration histogram, and one observation to the
\* request-size (response-size) histogram exactly if its request size
\* (response size, 0 when nothing was written) is above 0; nothing else
\* changes these series.
C22_SizeObservations ==
    [][IF metrics'.requests # metrics.requests
       THEN /\ metrics'.requests = metrics.requests + 1
            /\ metrics'.durations = metrics.durations + 1
            /\ metrics'.requestSizes
                  = metrics.requestSizes + Positive(metrics'.sample.reqSize)
            /\ metrics'.responseSizes
                  = metrics.responseSizes + Positive(metrics'.sample.written)
       ELSE /\ metrics'.durations = metrics.durations
            /\ metrics'.requestSizes = metrics.requestSizes
            /\ metrics'.responseSizes = metrics.responseSizes]_vars

\* Two requests have been recorded, the last with a request size above 0
\* and nothing written, and the response-size histogram has no observation.
C22_Witness ==
    /\ metrics.requests = 2
    /\ metrics.durations = 2
    /\ metrics.sample.reqSize > 0
    /\ metrics.sample.written = -1
    /\ metrics.requestSizes >= 1
    /\ metrics.responseSizes = 0

\* C23: the endpoint label of a recorded request is the matched route
\* pattern or "unknown", never the URL path of a request that matched no
\* route.
C23_EndpointBounded ==
    metrics.endpoints \subseteq Routes \cup {"unknown"}

----------------------------------------------------------------------------
(* Playground: the content of a provider's answer *)

\* JSON values as json.Unmarshal gives them to a map[string]interface{}:
\* <<"null">>, <<"string", s>>, <<"number", n>>, <<"array", elements>> and
\* <<"object", fields>>.
JStr(s) == <<"string", s>>
JArr(elems) == <<"array", elems>>
JObj(k, v) == <<"object", [x \in {k} |-> v]>>
JNil == <<"null">>

\* v[k] of a Go map, and the type assertions of the three functions.
MapGet(obj, k) == IF k \in DOMAIN obj[2] THEN obj[2][k] ELSE JNil
IsMap(v) == v[1] = "object"
IsSlice(v) == v[1] = "array"
IsString(v) == v[1] = "string"

Found(s) == [ok |-> TRUE, content |-> s, err |-> NoError]
Unexpected == [ok |-> FALSE, content |-> "", err |-> ProbeError("unexpected response format")]

\* Lines 142-151 of callOpenAI: choices[0].message.content
ExtractOpenAI(result) ==
    LET choices == MapGet(result, "choices")
    IN  IF ~(IsSlice(choices) /\ Len(choices[2]) > 0) THEN Unexpected
        ELSE LET choice == choices[2][1]
             IN  IF ~IsMap(choice) THEN Unexpected
                 ELSE LET message == MapGet(choice, "message")
                      IN  IF ~IsMap(message) THEN Unexpected
                          ELSE LET content == MapGet(message, "content")
                               IN  IF IsString(content) THEN Found(content[2])
                                   ELSE Unexpected

\* Lines 213-228 of callGemini: candidates[0].content.parts[0].text
ExtractGemini(result) ==
    LET candidates == MapGet(result, "candidates")
    IN  IF ~(IsSlice(candidates) /\ Len(candidates[2]) > 0) THEN Unexpected
        ELSE LET candidate == candidates[2][1]
             IN  IF ~IsMap(candidate) THEN Unexpected
                 ELSE LET content == MapGet(candidate, "content")
                      IN  IF ~IsMap(content) THEN Unexpected
                          ELSE LET parts == MapGet(content, "parts")
                               IN  IF ~(IsSlice(parts) /\ Len(parts[2]) > 0)
                                   THEN Unexpected
                                   ELSE LET part == parts[2][1]
                                        IN  IF ~IsMap(part) THEN Unexpected
                                            ELSE LET text == MapGet(part, "text")
                                                 IN  IF IsString(text)
                                                     THEN Found(text[2])
                                                     ELSE Unexpected

\* The extraction that takes a missing text for an empty one.
ExtractAnthropic_EmptyText(result) ==
    LET content == MapGet(result, "content")
    IN  IF ~(IsSlice(content) /\ Len(content[2]) > 0) THEN Unexpected
        ELSE LET textBlock == content[2][1]
             IN  IF ~IsMap(textBlock) THEN Unexpected
                 ELSE LET text == MapGet(textBlock, "text")
                      IN  IF IsString(text) THEN Found(text[2]) ELSE Found("")

\* Lines 286-293 of callAnthropic: content[0].text
ExtractAnthropic(result) ==
    LET content == MapGet(result, "content")
    IN  IF ~(IsSlice(content) /\ Len(content[2]) > 0) THEN Unexpected
        ELSE LET textBlock == content[2][1]
             IN  IF ~IsMap(textBlock) THEN Unexpected
                 ELSE LET text == MapGet(textBlock, "text")
                      IN  IF IsString(text) THEN Found(text[2]) ELSE Unexpected

\* What callOpenAI, callGemini and callAnthropic return for an answer with
\* a status and a body: an error for a status other than 200 and for a
\* body that json.Unmarshal cannot put into a map (not JSON, or JSON that
\* is neither an object nor null), else the extraction; null leaves the
\* map nil.
PlaygroundResult(provider, status, body) ==
    IF status # 200 THEN [ok |-> FALSE, content |-> "", err |-> ProbeError("status")]
    ELSE IF body[1] \notin {"object", "null"}
    THEN [ok |-> FALSE, content |-> "", err |-> ProbeError("json")]
    ELSE LET result == IF body[1] = "null" THEN <<"object", <<>>>> ELSE body
         IN  CASE provider = "openai" -> ExtractOpenAI(result)
               [] provider = "gemini" -> ExtractGemini(result)
               [] OTHER -> ExtractAnthropic(result)

\* The path of the content in each provider's answer.
Key(k) == <<"key", k>>
Index == <<"index", "0">>
ContentPath(provider) ==
    CASE provider = "openai" ->
           <<Key("choices"), Index, Key("message"), Key("content")>>
      [] provider = "gemini" ->
           <<Key("candidates"), Index, Key("content"), Key("parts"), Index, Key("text")>>
      [] OTHER -> <<Key("content"), Index, Key("text")>>

\* The value that holds v at the end of the first n steps of a path.
RECURSIVE Nest(_, _, _)
Nest(path, n, v) ==
    IF n = 0 THEN v
    ELSE Nest(path, n - 1,
              IF path[n][1] = "key" THEN JObj(path[n][2], v) ELSE JArr(<<v>>))

\* The answers the providers give: the content at the end of a provider's
\* path, or some other value at any depth of it (a missing key is an empty
\* object one step above), or a body that is not JSON at all.
Leaves == {JStr("hi"), JStr(""), <<"number", "1">>, JNil, JArr(<<>>),
           <<"object", <<>>>>, JArr(<<JStr("hi")>>)}
AnswerBodies ==
    {<<"invalid">>}
    \cup UNION {{Nest(ContentPath(p), n, v) :
                    n \in 0..Len(ContentPath(p)), v \in Leaves} :
                 p \in {"openai", "gemini", "anthropic"}}

\* The provider's answer reaches callOpenAI, callGemini or callAnthropic.
PlaygroundAnswers(status, body) ==
    /\ call.op = "playground"
    /\ call.at = "sent"
    /\ LET r == PlaygroundResult(call.adapter, status, body)
       IN  call' = [call EXCEPT !.at = "done",
                                !.response = [kind |-> "answer", status |-> status, body |-> body],
                                !.valid = r.ok,
                                !.content = r.content,
                                !.err = r.err]
    /\ UNCHANGED server

NextExtract ==
    \/ \E p \in {"openai", "gemini", "anthropic"} : CreatePlaygroundRequest(p)
    \/ PlaygroundDo
    \/ \E status \in {200, 500}, body \in AnswerBodies : PlaygroundAnswers(status, body)
    \/ CallReturns

SpecExtract == Init /\ [][NextExtract]_vars

\* The value at the end of a path in a JSON value, <<"none">> where the
\* path does not exist.
RECURSIVE Walk(_, _, _)
Walk(path, i, v) ==
    IF i > Len(path) THEN v
    ELSE IF path[i][1] = "key"
    THEN IF v[1] = "object" /\ path[i][2] \in DOMAIN v[2]
         THEN Walk(path, i + 1, v[2][path[i][2]]) ELSE <<"none">>
    ELSE IF v[1] = "array" /\ Len(v[2]) > 0
         THEN Walk(path, i + 1, v[2][1]) ELSE <<"none">>

Answered ==
    /\ call.op = "playground"
    /\ call.at = "done"
    /\ call.response.kind = "answer"
    /\ call.response.status = 200

----------------------------------------------------------------------------
(* Key selection in the three handlers *)

\* C25: wherever a key is acquired (PlaygroundChat, the FetchModels handler,
\* the RefreshModels handler) every key that is active in the group at the
\* moment of selection is a possible result: the keys the selection can
\* return are exactly the group's active keys.
C25_EveryActiveKeyPossible ==
    [][\A w \in Workers :
          (/\ pc[w] = "idle" /\ pc'[w] # "idle"
           /\ last'[w].handler \in {"playground", "fetch", "refresh"}
           /\ last'[w].acquired # 0)
          => last'[w].candidates =
                {k \in KeyIds : /\ KeyGroup[k] = last'[w].group
                                /\ keys[k] = KeyStatusActive}]_vars

----------------------------------------------------------------------------
(* Groups without a registered adapter *)

\* C26: a request for a group whose channel_type has no registered adapter
\* sends nothing upstream: the FetchModels and RefreshModels handlers fail
\* with status 500 and leave the store alone, and PlaygroundChat, once it
\* holds a decrypted key, answers 500 instead of sending a request in
\* another provider's format.
C26_UnknownChannelNotDispatched ==
    [][\A w \in Workers :
          (/\ pc[w] = "idle" /\ pc'[w] # "idle"
           /\ last'[w].group \in GroupIds
           /\ GroupTable[last'[w].group].channel_type \notin RegisteredChannels
           /\ last'[w].handler \in {"playground", "fetch", "refresh"}
           /\ last'[w].acquired # 0
           /\ last'[w].decrypt # "failed")
          => /\ ~last'[w].sent
             /\ last'[w].status = 500
             /\ pc'[w] = "done"
             /\ store' = store]_vars

----------------------------------------------------------------------------
(* FetchAndStoreModels and the rows it does not address *)

\* The registry under fetch requests for two groups whose providers list a
\* common model id, one request at a time.
NextGroups ==
    \/ DoFetchModels(1, {1, 2}, TRUE)
    \/ DoTxStep(1, DbFailures)
    \/ TxCommit(1)
    \/ Respond(1)
    \/ Tick

SpecGroups == Init /\ [][NextGroups]_vars

\* C27: FetchAndStoreModels only adds and updates, and only in its group:
\* its transaction deletes no row, leaves every row of the group whose
\* model id the provider did not list as it was, and neither inserts nor
\* changes a row of another group.
C27_AdditiveGroupLocal ==
    [][\A w \in Workers :
          (pc[w] = "tx" /\ last[w].invoked = 1)
          => LET g == tx[w].group
                 listed == CapIds(tx[w].caps)
             IN  /\ \A r \in store : \E q \in store' : q.id = r.id
                 /\ \A r \in store :
                       (r.group_id # g \/ r.model_id \notin listed) => r \in store'
                 /\ \A q \in store' :
                       (\A r \in store : r.id # q.id) => q.group_id = g]_vars

\* A fetch for group 2 has stored a model id that group 1 holds a row for
\* from an earlier hour.
C27_Witness ==
    \E w \in Workers :
        /\ pc[w] = "done" /\ last[w].invoked = 1 /\ last[w].err = ""
        /\ tx[w].group = 2 /\ last[w].at > 0
        /\ \E r \in tx[w].pre :
              /\ r.group_id = 1 /\ r.model_id \in CapIds(tx[w].caps)
              /\ r.last_fetched_at = Some(0)
              /\ r \in store
        /\ \E q \in store : q.group_id = 2 /\ q.model_id \in CapIds(tx[w].caps)

----------------------------------------------------------------------------
(* The preconditions of PlaygroundChat *)

\* Playground requests while the key pool changes the status of keys, among
\* them the key of the group without upstreams, and the registry holds rows.
NextPlayground ==
    \/ DoPlaygroundChat(1, GroupNames)
    \/ \E k \in {1, 6} : MarkInvalid(k)
    \/ \E k \in {1, 6} : MarkActive(k)
    \/ DoFetchModels(1, {1}, TRUE)
    \/ DoTxStep(1, {"none"})
    \/ TxCommit(1)
    \/ Respond(1)

SpecPlayground == Init /\ [][NextPlayground]_vars

\* The first precondition a playground request fails, in the order payload,
\* group, upstreams, active key; "" when it passes the four.
FirstFailure(q, ks) ==
    LET g == GroupByName(q.group_name)
    IN  IF ~q.valid THEN "payload"
        ELSE IF \A i \in GroupIds : GroupTable[i].name # q.group_name THEN "group"
        ELSE IF GroupTable[g].upstreams = 0 THEN "upstreams"
        ELSE IF \A k \in KeyIds : KeyGroup[k] = g => ks[k] # KeyStatusActive
             THEN "key"
        ELSE ""

\* C28: PlaygroundChat checks payload, group, upstreams, active key and
\* decryption in this order and answers with the first failure: 400 for a
\* malformed payload, 404 for an unknown group name, a rejection for a
\* group without upstreams, 500 for a group without an active key; a key is
\* selected only after the first three passed and decrypted only after it
\* was selected; a request goes upstream only when all five passed; and no
\* request that fails a precondition changes a key's status or a stored
\* row.
C28_PreconditionOrder ==
    [][\A w \in Workers :
          (pc[w] = "idle" /\ pc'[w] # "idle" /\ last'[w].handler = "playground")
          => LET c == last'[w]
                 f == FirstFailure(c.request, keys)
             IN  /\ f = "payload" => c.status = 400
                 /\ f = "group" => c.status = 404
                 /\ f = "upstreams" => c.status \in 400..499
                 /\ f = "key" => c.status = 500
                 /\ f # "" => /\ c.err # "" /\ c.acquired = 0 /\ c.decrypt = ""
                              /\ ~c.sent
                 /\ f = "" => c.acquired # 0 /\ c.decrypt # ""
                 /\ c.sent <=> (f = "" /\ c.decrypt = "ok")
                 /\ ~c.sent => keys' = keys /\ store' = store]_vars

\* A request for the group without upstreams was rejected while the group
\* had no active key either and the registry held a row.
C28_Witness ==
    \E w \in Workers :
        /\ pc[w] = "done" /\ last[w].handler = "playground"
        /\ last[w].request.valid /\ last[w].group = 5
        /\ last[w].err = "no_upstreams" /\ last[w].status = 400
        /\ keys[6] = KeyStatusInvalid
        /\ store # {}

----------------------------------------------------------------------------
(* Convergence of RefreshStaleModels *)

\* C29: after a RefreshStaleModels that ran a successful FetchAndStoreModels,
\* a RefreshStaleModels for the same group with the same window at the same
\* time finds nothing to do: the group has rows, and none of its
\* auto-fetched rows is without last_fetched_at or older than the window,
\* also when the provider's list no longer names a model id of such a row.
C29_RefreshConverges ==
    \A w \in Workers :
        (/\ pc[w] = "done" /\ last[w].handler = "refresh"
         /\ last[w].invoked = 1 /\ last[w].err = ""
         /\ last[w].stale > 0 /\ now = last[w].at)
        => LET rows == {r \in store : r.group_id = last[w].group}
           IN  /\ rows # {}
               /\ \A r \in rows :
                     r.is_auto_fetched =>
                        /\ r.last_fetched_at # Null
                        /\ ~(r.last_fetched_at[1] < now - last[w].stale)

----------------------------------------------------------------------------
(* The staleness window of the refresh endpoint *)

\* int64 values as eight bytes, least significant first; a product of two
\* of them keeps the low n bytes.
RECURSIVE Bytes(_, _)
Bytes(x, n) == IF n = 0 THEN <<>> ELSE <<x % 256>> \o Bytes(x \div 256, n - 1)

RECURSIVE SumSeq(_)
SumSeq(s) == IF s = <<>> THEN 0 ELSE Head(s) + SumSeq(Tail(s))

RECURSIVE Propagate(_, _, _)
Propagate(cols, i, carry) ==
    IF i > Len(cols) THEN <<>>
    ELSE <<(cols[i] + carry) % 256>>
         \o Propagate(cols, i + 1, (cols[i] + carry) \div 256)

Mul(a, b, n) ==
    Propagate([k \in 1..n |->
                  SumSeq([i \in 1..k |->
                             IF i <= Len(a) /\ k + 1 - i <= Len(b)
                             THEN a[i] * b[k + 1 - i] ELSE 0])],
              1, 0)

\* time.Hour: 3600000000000 nanoseconds
Hour == <<0, 160, 184, 48, 70, 3, 0, 0>>

\* time.Duration(staleDurationHours) * time.Hour: an int64 product, which
\* wraps.
StaleDuration(hours) == Mul(Bytes(hours, 8), Hour, 8)

IsNegative(d) == d[8] >= 128
IsZero(d) == \A i \in 1..8 : d[i] = 0

\* The values of stale_hours requests carry: none, text, and integers up
\* to the largest int32.
StaleHoursParams ==
    {<<"absent">>, <<"empty">>, <<"text">>}
    \cup {<<"int", n>> : n \in (0 - 3)..60 \cup {2562047, 2562048, 5124096, 2147483647}}

\* Lines 518-524 of Server.RefreshModels: the request arrives, the window
\* is computed.
RefreshRequestArrives ==
    /\ call.op = "none"
    /\ \E param \in StaleHoursParams :
          call' = [op |-> "refresh", at |-> "start", param |-> param,
                   hours |-> 0, staleDuration |-> Bytes(0, 8)]
    /\ UNCHANGED server

ComputeStaleDuration ==
    /\ call.op = "refresh" /\ call.at = "start"
    /\ call' = [call EXCEPT !.at = "done",
                   !.hours = StaleDurationHours(call.param),
                   !.staleDuration = StaleDuration(StaleDurationHours(call.param))]
    /\ UNCHANGED server

NextWindow ==
    \/ RefreshRequestArrives
    \/ ComputeStaleDuration
    \/ CallReturns

SpecWindow == Init /\ [][NextWindow]_vars

\* C30: the window the refresh endpoint hands to RefreshStaleModels is
\* stale_hours hours when the parameter is a positive integer and 24 hours
\* when it is absent, empty, not an integer, zero or negative, and it is
\* strictly positive in every case.
C30_StaleWindow ==
    (call.op = "refresh" /\ call.at = "done")
    => LET p == call.param
           h == IF p[1] = "int" THEN (IF p[2] > 0 THEN p[2] ELSE 24) ELSE 24
           d == call.staleDuration
       IN  /\ d \o <<0, 0, 0, 0>> = Mul(Bytes(h, 8), Hour, 12)
           /\ ~IsNegative(d)
           /\ ~IsZero(d)

====
